---- MODULE Spec2Model ----
(***************************************************************************)
(* Model of the chat backend of the token-gated resume dashboard:          *)
(*   - RouterAgent.route / RouterAgent.process                             *)
(*       (solutions/resume_dashboard/agents/router.py)                     *)
(*   - BaseAgent._calculate_confidence and the five agents' process        *)
(*       (agents/base.py, agents/{interview,technical,personal,            *)
(*        background,help}.py)                                             *)
(*   - the LangGraph workflow and ChatbotManager.process_message           *)
(*       (agents/workflow.py)                                              *)
(*                                                                         *)
(* Conventions.                                                            *)
(*   A text (Python str) is a sequence of one-character strings.  The      *)
(*   state holds a text by its name in the table Text (as the interpreter  *)
(*   holds a str by reference); every string operation is computed on the  *)
(*   characters.                                                           *)
(*   A confidence is an integer number of hundredths: 90 stands for 0.9,   *)
(*   50 for 0.5, 85 for 0.85 and so on.                                    *)
(*   None is Python's None.  An optional number (a dict key that may be    *)
(*   absent) is a set with at most one element.                            *)
(***************************************************************************)
EXTENDS Integers, Sequences, FiniteSets

VARIABLES
    llm_parts,       \* SpecRouter: the router LLM's raw reply, as the pieces it is made of
    route_result,    \* SpecRouter: what RouterAgent.route returned, or None
    process_result,  \* SpecRouter: what RouterAgent.process returned, or None
    response_parts,  \* SpecConfidence: an agent LLM's reply, as the pieces it is made of
    confidence,      \* SpecConfidence: what _calculate_confidence returned, or None
    sessions,        \* Spec: ChatbotManager.sessions, session_id -> stored graph state
    req,             \* Spec: the process_message call in flight, per request slot
    calls,           \* Spec: number of process_message calls started so far
    agent_response,  \* SpecAgentResponse: the AgentResponse construction under way
    token_check,     \* SpecValidate: the validate_token call under way
    env,             \* SpecApi: the process environment (ADMIN_TOKEN)
    db,              \* SpecApi: the SQLite database, table by table
    access_logs,     \* SpecApi: TokenAuthNode.access_logs, the in-memory list
    http,            \* SpecApi: the last HTTP request handled, its response and SQL statements
    clock,           \* SpecApi: requests handled so far; the value of CURRENT_TIMESTAMP
    stream           \* SpecStream: the generator of /api/chat/message/stream under way

\* the state of the HTTP endpoints
apiVars == <<env, db, access_logs, http, clock>>

\* the state outside the chat workflow and the text functions
webVars == <<agent_response, token_check, apiVars, stream>>

vars == <<llm_parts, route_result, process_result, response_parts, confidence,
          sessions, req, calls, webVars>>

None == "None"

(***************************************************************************)
(* Bounds of the model.                                                    *)
(***************************************************************************)
MaxRouterParts == 3      \* pieces in a router LLM reply
MaxResponseParts == 3    \* pieces in an agent LLM reply
MaxCalls == 2            \* process_message calls in one behaviour

(***************************************************************************)
(* Text primitives (Python str operations used by the code).               *)
(***************************************************************************)
LowerLetters == <<"a","b","c","d","e","f","g","h","i","j","k","l","m",
                  "n","o","p","q","r","s","t","u","v","w","x","y","z">>
UpperLetters == <<"A","B","C","D","E","F","G","H","I","J","K","L","M",
                  "N","O","P","Q","R","S","T","U","V","W","X","Y","Z">>
Whitespace == {" ", "\n", "\t"}

\* the upper-case form of each lower-case letter, and the reverse
UpperOf == [c \in {LowerLetters[i] : i \in 1..26} |->
              UpperLetters[CHOOSE i \in 1..26 : LowerLetters[i] = c]]
LowerOf == [c \in {UpperLetters[i] : i \in 1..26} |->
              LowerLetters[CHOOSE i \in 1..26 : UpperLetters[i] = c]]

\* str.upper() on one character
UpperChar(c) == IF c \in DOMAIN UpperOf THEN UpperOf[c] ELSE c

\* str.lower() on one character
LowerChar(c) == IF c \in DOMAIN LowerOf THEN LowerOf[c] ELSE c

\* str.upper()
upper(s) == [i \in 1..Len(s) |-> UpperChar(s[i])]

\* str.lower()
lower(s) == [i \in 1..Len(s) |-> LowerChar(s[i])]

\* str.strip(): drop leading and trailing whitespace
strip(s) ==
    LET keep == {i \in 1..Len(s) : s[i] \notin Whitespace}
    IN  IF keep = {} THEN <<>>
        ELSE LET first == CHOOSE i \in keep : \A j \in keep : i <= j
                 last  == CHOOSE i \in keep : \A j \in keep : j <= i
             IN  SubSeq(s, first, last)

\* Python's `sub in s` on strings
Contains(sub, s) ==
    \E i \in 0..Len(s) :
        /\ i + Len(sub) <= Len(s)
        /\ \A j \in 1..Len(sub) : s[i + j] = sub[j]

\* concatenation of a sequence of texts
RECURSIVE Flatten(_)
Flatten(parts) ==
    IF parts = <<>> THEN <<>> ELSE Head(parts) \o Flatten(Tail(parts))

\* all sequences over S of length at most n
SeqUpTo(S, n) == UNION {[1..k -> S] : k \in 0..n}

(***************************************************************************)
(* RouterAgent (router.py).                                                *)
(***************************************************************************)
INTERVIEW  == <<"I","N","T","E","R","V","I","E","W">>
TECHNICAL  == <<"T","E","C","H","N","I","C","A","L">>
PERSONAL   == <<"P","E","R","S","O","N","A","L">>
BACKGROUND == <<"B","A","C","K","G","R","O","U","N","D">>
HELP       == <<"H","E","L","P">>

\* agent_map with the values of its first two entries exchanged
agent_map_swapped == <<
    [key |-> INTERVIEW,  value |-> <<"technical", 90>>],
    [key |-> TECHNICAL,  value |-> <<"interview", 90>>],
    [key |-> PERSONAL,   value |-> <<"personal", 90>>],
    [key |-> BACKGROUND, value |-> <<"background", 90>>],
    [key |-> HELP,       value |-> <<"help", 90>> ] >>

\* agent_map of route(), in its insertion order: key |-> (agent name, confidence)
agent_map == <<
    [key |-> INTERVIEW,  value |-> <<"interview", 90>>],
    [key |-> TECHNICAL,  value |-> <<"technical", 90>>],
    [key |-> PERSONAL,   value |-> <<"personal", 90>>],
    [key |-> BACKGROUND, value |-> <<"background", 90>>],
    [key |-> HELP,       value |-> <<"help", 90>> ] >>

\* the loop of route() with the matched confidence as its default
RECURSIVE FindAgent_default90(_, _)
FindAgent_default90(response, i) ==
    IF i > Len(agent_map) THEN <<"help", 90>>
    ELSE IF Contains(agent_map[i].key, response) THEN agent_map[i].value
    ELSE FindAgent_default90(response, i + 1)

\* the loop of route() with no default agent
RECURSIVE FindAgent_unknown(_, _)
FindAgent_unknown(response, i) ==
    IF i > Len(agent_map) THEN <<"unknown", 50>>
    ELSE IF Contains(agent_map[i].key, response) THEN agent_map[i].value
    ELSE FindAgent_unknown(response, i + 1)

\* the `for key, value in agent_map.items()` loop of route(), from entry i on
RECURSIVE FindAgent(_, _)
FindAgent(response, i) ==
    IF i > Len(agent_map) THEN <<"help", 50>>
    ELSE IF Contains(agent_map[i].key, response) THEN agent_map[i].value
    ELSE FindAgent(response, i + 1)

\* route() without .upper()
route_case_sensitive(content) ==
    LET response == strip(content)
    IN  FindAgent(response, 1)

\* route() returning the label whose token comes first in the reply
route_by_position(content) ==
    LET response == upper(strip(content))
        At(i, p) == /\ p + Len(agent_map[i].key) <= Len(response)
                    /\ \A j \in 1..Len(agent_map[i].key) :
                          response[p + j] = agent_map[i].key[j]
        hits == {p \in 0..Len(response) : \E i \in 1..Len(agent_map) : At(i, p)}
    IN  IF hits = {} THEN <<"help", 50>>
        ELSE LET p == CHOOSE q \in hits : \A h \in hits : q <= h
             IN  agent_map[CHOOSE i \in 1..Len(agent_map) : At(i, p)].value

\* RouterAgent.route, given the content of the LLM's reply
route(content) ==
    LET response == upper(strip(content))
    IN  FindAgent(response, 1)

\* RouterAgent.process, given the content of the LLM's reply
RouterProcess(content) ==
    LET r == route(content)
    IN  [agent |-> r[1], confidence |-> r[2], reasoning |-> <<"Routing to", r[1], "agent">>]

(***************************************************************************)
(* BaseAgent._calculate_confidence (base.py).                              *)
(***************************************************************************)
NotSure  == <<"I","'","m"," ","n","o","t"," ","s","u","r","e">>
DontKnow == <<"I"," ","d","o","n","'","t"," ","k","n","o","w">>

\* _calculate_confidence with `<= 50` for `< 50`
_calculate_confidence_le(message, response) ==
    IF Len(response) <= 50 THEN 60
    ELSE IF Contains(NotSure, response) \/ Contains(DontKnow, response) THEN 40
    ELSE 85

_calculate_confidence(message, response) ==
    IF Len(response) < 50 THEN 60
    ELSE IF Contains(NotSure, response) \/ Contains(DontKnow, response) THEN 40
    ELSE 85

(***************************************************************************)
(* The texts of the model: user messages and LLM replies, by name.         *)
(***************************************************************************)
Text(name) ==
    CASE name = "INTERVIEW"     -> INTERVIEW
      [] name = "TECHNICAL"     -> TECHNICAL
      [] name = "PERSONAL"      -> PERSONAL
      [] name = "BACKGROUND"    -> BACKGROUND
      [] name = "HELP"          -> HELP
      [] name = "technical"     -> lower(TECHNICAL)
      [] name = "Help"          -> <<"H","e","l","p">>
      [] name = "INVALID_AGENT" -> <<"I","N","V","A","L","I","D","_","A","G","E","N","T">>
      [] name = "ERSONAL"       -> <<"E","R","S","O","N","A","L">>
      [] name = "agent: "       -> <<"a","g","e","n","t",":"," ">>
      [] name = " "             -> <<" ">>
      [] name = "whitespace"    -> <<" ","\n","\t">>
      [] name = "I'm not sure"  -> NotSure
      [] name = "I don't know"  -> DontKnow
      [] name = "i'm not sure"  -> lower(NotSure)
      [] name = ""              -> <<>>
      [] name = "Bearer "       -> <<"B","e","a","r","e","r"," ">>
      [] name = "bearer "       -> <<"b","e","a","r","e","r"," ">>
      [] name = "secret"        -> <<"s","e","c","r","e","t">>
      [] name = "Secret"        -> <<"S","e","c","r","e","t">>
      [] name = "GOOGLE2024"    -> <<"G","O","O","G","L","E","2","0","2","4">>
      [] name = "Google"        -> <<"G","o","o","g","l","e">>
      [] name = "2024"          -> <<"2","0","2","4">>
      [] name = "Yes."          -> <<"Y","e","s",".">>
      [] name = "I build backend services." ->
            <<"I"," ","b","u","i","l","d"," ","b","a","c","k","e","n","d"," ",
              "s","e","r","v","i","c","e","s",".">>
      [] name = "I have worked with Python." ->
            <<"I"," ","h","a","v","e"," ","w","o","r","k","e","d"," ","w","i","t","h"," ",
              "P","y","t","h","o","n",".">>
      [] name = "I'm not sure about that specific question." ->
            <<"I","'","m"," ","n","o","t"," ","s","u","r","e"," ","a","b","o","u","t"," ",
              "t","h","a","t"," ","s","p","e","c","i","f","i","c"," ",
              "q","u","e","s","t","i","o","n",".">>
      [] name = "I don't know; I build backend services. I have worked with Python." ->
            DontKnow \o <<";"," ">> \o
            <<"I"," ","b","u","i","l","d"," ","b","a","c","k","e","n","d"," ",
              "s","e","r","v","i","c","e","s","."," ">> \o
            <<"I"," ","h","a","v","e"," ","w","o","r","k","e","d"," ","w","i","t","h"," ",
              "P","y","t","h","o","n",".">>
      [] name = "I build backend services. I have worked with Python." ->
            <<"I"," ","b","u","i","l","d"," ","b","a","c","k","e","n","d"," ",
              "s","e","r","v","i","c","e","s","."," ">> \o
            <<"I"," ","h","a","v","e"," ","w","o","r","k","e","d"," ","w","i","t","h"," ",
              "P","y","t","h","o","n",".">>
      [] name = "hi"            -> <<"h","i">>
      [] name = "hi  why? "     -> <<"h","i"," "," ","w","h","y","?"," ">>
      [] name = "User: "        -> <<"U","s","e","r",":"," ">>
      [] name = "Assistant: "   -> <<"A","s","s","i","s","t","a","n","t",":"," ">>
      [] name = "\n"            -> <<"\n">>
      [] name = "This is the start of the conversation." ->
            <<"T","h","i","s"," ","i","s"," ","t","h","e"," ","s","t","a","r","t"," ",
              "o","f"," ","t","h","e"," ","c","o","n","v","e","r","s","a","t","i","o","n",".">>
      [] name = "why?"          -> <<"w","h","y","?">>

\* the text made of the named pieces, in order
Join(parts) == Flatten([i \in 1..Len(parts) |-> Text(parts[i])])

(***************************************************************************)
(* The five agents (agents/*.py): process(), given the LLM's reply.        *)
(***************************************************************************)
KnownLabels == {"interview", "technical", "personal", "background", "help"}

InterviewProcess(message, content) ==
    [content |-> content, agent_name |-> "Interview", confidence |-> 90,
     metadata |-> "interview"]

TechnicalProcess(message, content) ==
    [content |-> content, agent_name |-> "Technical",
     confidence |-> _calculate_confidence(Text(message), Text(content)),
     metadata |-> "technical"]

PersonalProcess(message, content) ==
    [content |-> content, agent_name |-> "Personal",
     confidence |-> _calculate_confidence(Text(message), Text(content)),
     metadata |-> "personal"]

BackgroundProcess(message, content) ==
    [content |-> content, agent_name |-> "Background",
     confidence |-> _calculate_confidence(Text(message), Text(content)),
     metadata |-> "background"]

HelpProcess(message, content) ==
    [content |-> content, agent_name |-> "Help", confidence |-> 80,
     metadata |-> "guidance"]

\* agents[label].process(message, conv_state), given the LLM's reply
AgentProcess(label, message, content) ==
    CASE label = "interview"  -> InterviewProcess(message, content)
      [] label = "technical"  -> TechnicalProcess(message, content)
      [] label = "personal"   -> PersonalProcess(message, content)
      [] label = "background" -> BackgroundProcess(message, content)
      [] label = "help"       -> HelpProcess(message, content)

(***************************************************************************)
(* The LangGraph workflow (workflow.py).                                   *)
(*                                                                         *)
(* GraphState declares `messages` with the reducer operator.add and every  *)
(* other key without one.  A node's return value is an update: the value   *)
(* returned under `messages` is ADDED to the channel's value, the value    *)
(* returned under any other key replaces it.  Both nodes return the whole  *)
(* state they were given, so the list they return under `messages` is the  *)
(* channel's own list (after any in-place append).                         *)
(***************************************************************************)
\* HumanMessage(content=...): no additional_kwargs
HumanMessage(content) ==
    [type |-> "human", content |-> content, agent |-> None, confidence |-> {}]

\* AIMessage(content=..., additional_kwargs={"agent": ..., "confidence": ...})
AIMessage(content, agent, conf) ==
    [type |-> "ai", content |-> content, agent |-> agent, confidence |-> {conf}]

\* d.get("confidence", 0.8) on an optional number
GetConfidence(opt) == IF opt = {} THEN 80 ELSE CHOOSE c \in opt : TRUE

\* the operator.add reducer of GraphState.messages
ReduceMessages(value, update) == value \o update

\* messages[-5:]
LastFive(messages) ==
    LET k == IF Len(messages) < 5 THEN Len(messages) ELSE 5
    IN  [i \in 1..k |-> messages[Len(messages) - k + i]]

\* sep.join(lines), each line and the result a text in pieces
RECURSIVE JoinLines(_, _)
JoinLines(sep, lines) ==
    IF lines = <<>> THEN <<>>
    ELSE IF Len(lines) = 1 THEN lines[1]
    ELSE lines[1] \o <<sep>> \o JoinLines(sep, Tail(lines))

\* BaseAgent._build_context(state), given state.messages; the result in pieces
_build_context(messages) ==
    IF messages = <<>> THEN <<"This is the start of the conversation.">>
    ELSE LET context_messages == LastFive(messages)
             known == SelectSeq(context_messages, LAMBDA msg : msg.type \in {"human", "ai"})
             context == [i \in 1..Len(known) |->
                           IF known[i].type = "human"
                           THEN <<"User: ", known[i].content>>
                           ELSE <<"Assistant: ", known[i].content>>]
         IN  JoinLines("\n", context)

\* the values a prompt template is formatted with: {context} and {message}
NoPrompt == [context |-> <<>>, message |-> None]

\* route_message(state): the prompt RouterAgent.route formats for the router LLM
route_prompt(state) ==
    LET messages == state.messages
        last_message == messages[Len(messages)]
    IN  [context |-> _build_context(messages), message |-> last_message.content]

\* process_with_agent(state, agent_name): the prompt BaseAgent.process formats for
\* the agent's LLM; conv_state.messages is messages[:-1]
agent_prompt(state) ==
    LET messages == state.messages
        last_message == messages[Len(messages)]
        but_last == [i \in 1..Len(messages) - 1 |-> messages[i]]
    IN  [context |-> _build_context(but_last), message |-> last_message.content]

\* route_message(state): True when the node reaches the router call
RouteReaches(state) ==
    /\ state.messages # <<>>
    /\ state.messages[Len(state.messages)].type = "human"

\* the state after the router node, given the router LLM's reply
route_message(state, content) ==
    IF ~RouteReaches(state)
    THEN [state EXCEPT !.messages = ReduceMessages(state.messages, state.messages)]
    ELSE LET routing_result == RouterProcess(Text(content))
         IN  [state EXCEPT
                !.next_agent = routing_result.agent,
                !.routing_confidence = {routing_result.confidence},
                !.messages = ReduceMessages(state.messages, state.messages)]

\* should_continue falling back to the first node instead of "help"
should_continue_first(state) ==
    IF state.next_agent \in KnownLabels THEN state.next_agent ELSE "interview"

\* should_continue(state): the node the conditional edge selects
should_continue(state) ==
    IF state.next_agent \in KnownLabels THEN state.next_agent ELSE "help"

\* agents.get(agent_name), falling back to agents["help"]
GetAgent(agent_name) ==
    IF agent_name \in KnownLabels THEN agent_name ELSE "help"

\* process_with_agent labelling the turn with the agent's own name (response["agent_name"])
process_with_agent_name(state, agent_name, content) ==
    IF ~RouteReaches(state)
    THEN [state EXCEPT !.messages = ReduceMessages(state.messages, state.messages)]
    ELSE LET messages == state.messages
             last_message == messages[Len(messages)]
             response == AgentProcess(GetAgent(agent_name), last_message.content, content)
             ai_message == AIMessage(response.content, response.agent_name,
                                     GetConfidence({response.confidence}))
             appended == Append(messages, ai_message)
         IN  [state EXCEPT
                !.messages = ReduceMessages(appended, appended),
                !.current_agent = agent_name,
                !.agent_history = Append(state.agent_history, agent_name)]

\* the state after node agent_name, given the agent LLM's reply
process_with_agent(state, agent_name, content) ==
    IF ~RouteReaches(state)
    THEN [state EXCEPT !.messages = ReduceMessages(state.messages, state.messages)]
    ELSE LET messages == state.messages
             last_message == messages[Len(messages)]
             response == AgentProcess(GetAgent(agent_name), last_message.content, content)
             ai_message == AIMessage(response.content, agent_name,
                                     GetConfidence({response.confidence}))
             appended == Append(messages, ai_message)
         IN  [state EXCEPT
                !.messages = ReduceMessages(appended, appended),
                !.current_agent = agent_name,
                !.agent_history = Append(state.agent_history, agent_name)]

(***************************************************************************)
(* ChatbotManager.process_message (workflow.py), one step per await point. *)
(***************************************************************************)
SessionIds == {"s1", "s2"}
Reqs == {"r1", "r2"}

UserMessages == {"hi", "why?"}

\* replies of the router LLM and of the agents' LLM in the chat specification
ChatRouterReplies == {"INTERVIEW", "TECHNICAL", "PERSONAL", "BACKGROUND", "HELP",
                      "INVALID_AGENT"}
ChatAgentReplies == {"Yes.",
                     "I don't know; I build backend services. I have worked with Python."}

\* the dict process_message stores for a new session_id
NewSession(session_id) ==
    [messages |-> <<>>, current_agent |-> None, next_agent |-> None,
     session_id |-> session_id, token |-> "demo_token", company |-> "public_access",
     agent_history |-> <<>>, routing_confidence |-> {}]

IdleReq ==
    [pc |-> "idle", session_id |-> None, message |-> None, before |-> <<>>,
     state |-> NewSession(None), routed |-> None, ran |-> <<>>, reply |-> [success |-> None],
     \* bookkeeping: llm.invoke calls made for this request, and the node whose call raised
     llm_calls |-> 0, llm_raised |-> None,
     \* bookkeeping: the graph nodes entered for this request, in order
     nodes |-> <<>>,
     \* bookkeeping: the prompts formatted for the router LLM and for the agent's LLM
     router_prompt |-> NoPrompt, agent_prompt |-> NoPrompt]

\* the dict process_message returns, from the graph's result
BuildReply(result, session_id) ==
    LET ai_messages == SelectSeq(result.messages, LAMBDA m : m.type = "ai")
    IN  IF ai_messages # <<>>
        THEN LET last_response == ai_messages[Len(ai_messages)]
             IN  [success |-> TRUE, response |-> last_response.content,
                  agent |-> last_response.agent,
                  confidence |-> GetConfidence(last_response.confidence),
                  session_id |-> session_id]
        ELSE [success |-> FALSE, error |-> "No response generated",
              session_id |-> session_id]

NoneInFlight == \A q \in Reqs : req[q].pc = "idle"

\* process_message storing a new session dict on every call (no `not in` test)
Start_reset(r, session_id, message) ==
    /\ req[r].pc = "idle"
    /\ calls < MaxCalls
    /\ LET existing == NewSession(session_id)
           state == [existing EXCEPT !.messages = Append(@, HumanMessage(message))]
       IN  /\ sessions' = [s \in DOMAIN sessions \cup {session_id} |->
                              IF s = session_id THEN state ELSE sessions[s]]
           /\ req' = [req EXCEPT ![r] =
                        [IdleReq EXCEPT !.pc = "router", !.session_id = session_id,
                                        !.message = message, !.before = existing.messages,
                                        !.state = state]]
    /\ calls' = calls + 1
    /\ UNCHANGED <<webVars, llm_parts, route_result, process_result, response_parts, confidence>>

\* process_message holding a lock per session: a call waits while another call on the
\* same session is in flight
Start_locked(r, session_id, message) ==
    /\ req[r].pc = "idle"
    /\ calls < MaxCalls
    /\ \A q \in Reqs : req[q].pc \in {"router", "agent", "update"} =>
                          req[q].session_id # session_id
    /\ LET existing == IF session_id \in DOMAIN sessions THEN sessions[session_id]
                       ELSE NewSession(session_id)
           state == [existing EXCEPT !.messages = Append(@, HumanMessage(message))]
       IN  /\ sessions' = [s \in DOMAIN sessions \cup {session_id} |->
                              IF s = session_id THEN state ELSE sessions[s]]
           /\ req' = [req EXCEPT ![r] =
                        [IdleReq EXCEPT !.pc = "router", !.session_id = session_id,
                                        !.message = message, !.before = existing.messages,
                                        !.state = state]]
    /\ calls' = calls + 1
    /\ UNCHANGED <<webVars, llm_parts, route_result, process_result, response_parts, confidence>>

\* lines 176-194: get or create the session, append the user message, enter the graph
Start(r, session_id, message) ==
    /\ req[r].pc = "idle"
    /\ calls < MaxCalls
    /\ LET existing == IF session_id \in DOMAIN sessions THEN sessions[session_id]
                       ELSE NewSession(session_id)
           state == [existing EXCEPT !.messages = Append(@, HumanMessage(message))]
       IN  /\ sessions' = [s \in DOMAIN sessions \cup {session_id} |->
                              IF s = session_id THEN state ELSE sessions[s]]
           /\ req' = [req EXCEPT ![r] =
                        [IdleReq EXCEPT !.pc = "router", !.session_id = session_id,
                                        !.message = message, !.before = existing.messages,
                                        !.state = state]]
    /\ calls' = calls + 1
    /\ UNCHANGED <<webVars, llm_parts, route_result, process_result, response_parts, confidence>>

\* process_message as the claims about sequential calls see it: no call is in
\* flight when a call starts (which slot it takes makes no difference)
StartSequential(session_id, message) ==
    /\ NoneInFlight
    /\ Start(CHOOSE r \in Reqs : TRUE, session_id, message)

\* node "router": route_message, the router LLM replies with `content`
RouteStep(r) ==
    /\ req[r].pc = "router"
    /\ \E content \in ChatRouterReplies :
         LET state == route_message(req[r].state, content)
             sid == req[r].session_id
         IN  /\ req' = [req EXCEPT ![r].state = state, ![r].pc = "agent",
                                   ![r].routed = state.next_agent,
                                   ![r].nodes = Append(@, "router"),
                                   ![r].llm_calls =
                                       IF RouteReaches(req[r].state) THEN @ + 1 ELSE @,
                                   ![r].router_prompt =
                                       IF RouteReaches(req[r].state)
                                       THEN route_prompt(req[r].state) ELSE @]
             \* state["metadata"] is the session's own dict, changed in place
             /\ sessions' = [sessions EXCEPT
                               ![sid].routing_confidence = state.routing_confidence]
    /\ UNCHANGED <<webVars, llm_parts, route_result, process_result, response_parts, confidence, calls>>

\* route catching the LLM's exception and answering ("help", 0.5) instead
RouteRaises_fallback(r) ==
    /\ req[r].pc = "router"
    /\ RouteReaches(req[r].state)
    /\ LET state == [req[r].state EXCEPT
                       !.next_agent = "help", !.routing_confidence = {50},
                       !.messages = ReduceMessages(@, @)]
       IN  req' = [req EXCEPT ![r].state = state, ![r].pc = "agent",
                              ![r].routed = "help", ![r].llm_calls = @ + 1,
                              ![r].llm_raised = "router",
                              ![r].router_prompt = route_prompt(req[r].state)]
    /\ UNCHANGED <<webVars, llm_parts, route_result, process_result, response_parts, confidence,
                   sessions, calls>>

\* node "router": the router LLM call raises; the exception leaves process_message
RouteRaises(r) ==
    /\ req[r].pc = "router"
    /\ RouteReaches(req[r].state)
    /\ req' = [req EXCEPT ![r].pc = "raised", ![r].llm_calls = @ + 1,
                          ![r].llm_raised = "router",
                          ![r].nodes = Append(@, "router"),
                          ![r].router_prompt = route_prompt(req[r].state)]
    /\ UNCHANGED <<webVars, llm_parts, route_result, process_result, response_parts, confidence,
                   sessions, calls>>

\* conditional edge and agent node: process_with_agent, the agent LLM replies with `content`
AgentStep(r) ==
    /\ req[r].pc = "agent"
    /\ \E content \in ChatAgentReplies :
         LET agent_name == should_continue(req[r].state)
             state == process_with_agent(req[r].state, agent_name, content)
         IN  req' = [req EXCEPT ![r].state = state, ![r].pc = "update",
                                ![r].ran = Append(@, GetAgent(agent_name)),
                                ![r].nodes = Append(@, agent_name),
                                ![r].llm_calls =
                                    IF RouteReaches(req[r].state) THEN @ + 1 ELSE @,
                                ![r].agent_prompt =
                                    IF RouteReaches(req[r].state)
                                    THEN agent_prompt(req[r].state) ELSE @]
    /\ UNCHANGED <<webVars, llm_parts, route_result, process_result, response_parts, confidence,
                   sessions, calls>>

\* agent node: the agent LLM call raises; the exception leaves process_message
AgentRaises(r) ==
    /\ req[r].pc = "agent"
    /\ RouteReaches(req[r].state)
    /\ req' = [req EXCEPT ![r].pc = "raised",
                          ![r].ran = Append(@, GetAgent(should_continue(req[r].state))),
                          ![r].nodes = Append(@, should_continue(req[r].state)),
                          ![r].llm_calls = @ + 1, ![r].llm_raised = "agent",
                          ![r].agent_prompt = agent_prompt(req[r].state)]
    /\ UNCHANGED <<webVars, llm_parts, route_result, process_result, response_parts, confidence,
                   sessions, calls>>

\* process_message returning the reply without storing the graph's result
Finish_unstored(r) ==
    /\ req[r].pc = "update"
    /\ req' = [req EXCEPT ![r].pc = "done",
                          ![r].reply = BuildReply(req[r].state, req[r].session_id)]
    /\ UNCHANGED <<webVars, llm_parts, route_result, process_result, response_parts, confidence,
                   sessions, calls>>

\* lines 196-215: store the graph's result as the session, build the reply
Finish(r) ==
    /\ req[r].pc = "update"
    /\ sessions' = [sessions EXCEPT ![req[r].session_id] = req[r].state]
    /\ req' = [req EXCEPT ![r].pc = "done",
                          ![r].reply = BuildReply(req[r].state, req[r].session_id)]
    /\ UNCHANGED <<webVars, llm_parts, route_result, process_result, response_parts, confidence, calls>>

\* the caller takes the reply (or the exception); the slot is free again
Return(r) ==
    /\ req[r].pc \in {"done", "raised"}
    /\ req' = [req EXCEPT ![r] = IdleReq]
    /\ UNCHANGED <<webVars, llm_parts, route_result, process_result, response_parts, confidence,
                   sessions, calls>>

InitText ==
    /\ llm_parts = <<>>
    /\ route_result = <<>>
    /\ process_result = [agent |-> None]
    /\ response_parts = <<>>
    /\ confidence = {}

\* nothing under way outside the chat workflow
(***************************************************************************)
(* The SQLite database (solutions/resume_dashboard/utils/database.py) as   *)
(* _insert_sample_data leaves it.  A token hash is written by its first    *)
(* eight hex digits; NULL is None; a timestamp column is an optional       *)
(* number, the clock value at the time of writing.                         *)
(***************************************************************************)
\* hashlib.sha256(token.encode()).hexdigest()
sha256(token) ==
    CASE token = "hello"     -> "2cf24dba"
      [] token = "world"     -> "486ea462"
      [] token = "test123"   -> "ecd71870"
      [] token = ""          -> "e3b0c442"
      [] token = "Hello"     -> "185f8db3"
      [] token = "nope"      -> "ca3704aa"
      [] token = "anonymous" -> "2f183a4e"

SampleTokenAccess ==
    [token_hash \in {"2cf24dba", "486ea462", "ecd71870"} |->
        CASE token_hash = "2cf24dba" ->
                 [company |-> "acme_corp", company_name |-> "Acme Corporation",
                  custom_data |-> "Technology", last_accessed |-> {}]
          [] token_hash = "486ea462" ->
                 [company |-> "startup_xyz", company_name |-> "Startup XYZ",
                  custom_data |-> "Fintech", last_accessed |-> {}]
          [] token_hash = "ecd71870" ->
                 [company |-> "big_tech", company_name |-> "BigTech Solutions",
                  custom_data |-> "Enterprise Software", last_accessed |-> {}]]

SampleQueryDemonstrations ==
    [query_name \in {"Project Overview", "Skills by Category", "Recent Projects"} |->
        CASE query_name = "Project Overview" ->
                 [query_sql |-> "SELECT name, description, status, impact_score FROM projects ORDER BY impact_score DESC;",
                  description |-> "Shows all projects ranked by impact"]
          [] query_name = "Skills by Category" ->
                 [query_sql |-> "SELECT category, COUNT(*) as skill_count, AVG(proficiency_level) as avg_proficiency FROM skills GROUP BY category;",
                  description |-> "Summarizes skills expertise by category"]
          [] query_name = "Recent Projects" ->
                 [query_sql |-> "SELECT name, tech_stack, start_date FROM projects WHERE start_date >= '2024-01-01' ORDER BY start_date DESC;",
                  description |-> "Shows projects from current year"]]

SampleDatabase ==
    [token_access |-> SampleTokenAccess,
     access_logs |-> <<>>,
     chat_logs |-> <<>>,
     query_demonstrations |-> SampleQueryDemonstrations]

IdleHttp == [endpoint |-> None]

\* the server started (lifespan ran db_manager.initialize), ADMIN_TOKEN not set
InitApi ==
    /\ env = [ADMIN_TOKEN |-> ""]
    /\ db = SampleDatabase
    /\ access_logs = <<>>
    /\ http = IdleHttp
    /\ clock = 0

IdleTokenCheck == [pc |-> "idle"]
IdleStream == [pc |-> "idle"]

InitWeb ==
    /\ agent_response = [pc |-> "idle"]
    /\ token_check = IdleTokenCheck
    /\ stream = IdleStream
    /\ InitApi

InitChat ==
    /\ sessions = <<>>
    /\ req = [r \in Reqs |-> IdleReq]
    /\ calls = 0

Init == InitText /\ InitChat /\ InitWeb

Next ==
    \/ \E session_id \in SessionIds, message \in UserMessages :
          StartSequential(session_id, message)
    \/ \E r \in Reqs : RouteStep(r)
    \/ \E r \in Reqs : RouteRaises(r)
    \/ \E r \in Reqs : AgentStep(r)
    \/ \E r \in Reqs : AgentRaises(r)
    \/ \E r \in Reqs : Finish(r)
    \/ \E r \in Reqs : Return(r)

Spec == Init /\ [][Next]_vars

(***************************************************************************)
(* SpecRouter: RouterAgent.route and RouterAgent.process on every reply    *)
(* the router LLM can give that is made of at most MaxRouterParts pieces.  *)
(***************************************************************************)
RouterPieces == {"INTERVIEW", "TECHNICAL", "PERSONAL", "BACKGROUND", "HELP",
                 "technical", "Help",
                 "INVALID_AGENT", "ERSONAL", "agent: ", "whitespace"}

InitRouter ==
    /\ llm_parts \in SeqUpTo(RouterPieces, MaxRouterParts)
    /\ route_result = <<>>
    /\ process_result = [agent |-> None]
    /\ response_parts = <<>>
    /\ confidence = {}
    /\ InitChat
    /\ InitWeb

\* router.route(message, conversation_state), the LLM replying Join(llm_parts)
Route ==
    /\ route_result = <<>>
    /\ route_result' = route(Join(llm_parts))
    /\ UNCHANGED <<webVars, llm_parts, process_result, response_parts, confidence, sessions, req, calls>>

\* router.process(message, conversation_state), the LLM replying Join(llm_parts)
Process ==
    /\ process_result.agent = None
    /\ process_result' = RouterProcess(Join(llm_parts))
    /\ UNCHANGED <<webVars, llm_parts, route_result, response_parts, confidence, sessions, req, calls>>

NextRouter == Route \/ Process

SpecRouter == InitRouter /\ [][NextRouter]_vars

(***************************************************************************)
(* SpecConfidence: BaseAgent._calculate_confidence on every reply an       *)
(* agent's LLM can give that is made of at most MaxResponseParts pieces.   *)
(***************************************************************************)
ResponsePieces == {"I'm not sure", "I don't know", "i'm not sure", "Yes.", " ",
                   "I build backend services.", "I have worked with Python.",
                   "I'm not sure about that specific question."}

InitConfidence ==
    /\ llm_parts = <<>>
    /\ route_result = <<>>
    /\ process_result = [agent |-> None]
    /\ response_parts \in SeqUpTo(ResponsePieces, MaxResponseParts)
    /\ confidence = {}
    /\ InitChat
    /\ InitWeb

\* self._calculate_confidence(message, response.content)
CalculateConfidence ==
    /\ confidence = {}
    /\ \E message \in UserMessages :
         confidence' = {_calculate_confidence(Text(message), Join(response_parts))}
    /\ UNCHANGED <<webVars, llm_parts, route_result, process_result, response_parts, sessions, req, calls>>

NextConfidence == CalculateConfidence

SpecConfidence == InitConfidence /\ [][NextConfidence]_vars

(***************************************************************************)
(* SpecDispatch: the compiled graph from its conditional edge on, entered  *)
(* with any value of next_agent a router node could have left in the       *)
(* state (known labels, other strings, None).                              *)
(***************************************************************************)
AnyNextAgent == KnownLabels \cup {None, "unknown", "router", "Technical", ""}

InitDispatch ==
    /\ InitText
    /\ InitWeb
    /\ calls = 1
    /\ \E session_id \in SessionIds, message \in UserMessages, next_agent \in AnyNextAgent :
         LET stored == [NewSession(session_id) EXCEPT
                          !.messages = <<HumanMessage(message)>>,
                          !.routing_confidence = {90}]
             state == [stored EXCEPT !.messages = ReduceMessages(@, @),
                                     !.next_agent = next_agent]
             r1 == CHOOSE r \in Reqs : TRUE
         IN  /\ sessions = [s \in {session_id} |-> stored]
             /\ req = [r \in Reqs |->
                         IF r = r1
                         THEN [IdleReq EXCEPT !.pc = "agent", !.session_id = session_id,
                                              !.message = message, !.state = state,
                                              !.routed = next_agent]
                         ELSE IdleReq]

NextDispatch ==
    \/ \E r \in Reqs : AgentStep(r)
    \/ \E r \in Reqs : AgentRaises(r)
    \/ \E r \in Reqs : Finish(r)
    \/ \E r \in Reqs : Return(r)

SpecDispatch == InitDispatch /\ [][NextDispatch]_vars

(***************************************************************************)
(* Properties.                                                             *)
(***************************************************************************)
\* the five label tokens and the agent names, in the order the router prompt lists them
LabelTokens == <<INTERVIEW, TECHNICAL, PERSONAL, BACKGROUND, HELP>>
LabelNames  == <<"interview", "technical", "personal", "background", "help">>

\* label token k occurs in the text, letter case ignored
HasLabel(k, text) == Contains(lower(LabelTokens[k]), lower(text))

\* the labels whose token occurs in the text, letter case ignored
LabelsIn(text) == {k \in 1..5 : HasLabel(k, text)}

\* the request slots whose call has returned a reply
Replied == {r \in Reqs : req[r].pc = "done"}

\* the stored history of the session of request r
History(r) == sessions[req[r].session_id].messages

\* C1 (Spec): a successful process_message call leaves the session's history exactly
\* two entries longer than before the call: the call's user message followed by the
\* call's assistant reply, after all earlier entries.
C1_HistoryGrowsByTwo ==
    \A r \in Replied :
        req[r].reply.success = TRUE =>
            History(r) = req[r].before \o
                <<HumanMessage(req[r].message),
                  AIMessage(req[r].reply.response, req[r].reply.agent,
                            req[r].reply.confidence)>>

\* C2 (SpecRouter): when the router LLM's reply is exactly one of the five upper-case
\* tokens, route returns that label in lower case with confidence 0.9.
C2_ExactUppercaseToken ==
    route_result # <<>> =>
        /\ (Join(llm_parts) = INTERVIEW  => route_result = <<"interview", 90>>)
        /\ (Join(llm_parts) = TECHNICAL  => route_result = <<"technical", 90>>)
        /\ (Join(llm_parts) = PERSONAL   => route_result = <<"personal", 90>>)
        /\ (Join(llm_parts) = BACKGROUND => route_result = <<"background", 90>>)
        /\ (Join(llm_parts) = HELP       => route_result = <<"help", 90>>)

C2_Witness ==
    /\ llm_parts = <<"BACKGROUND">>
    /\ route_result = <<"background", 90>>

\* C3 (SpecRouter): a reply that contains none of the five label tokens, letter case
\* ignored, is routed to ("help", 0.5).
C3_NoLabelDefaultsToHelp ==
    (route_result # <<>> /\ LabelsIn(Join(llm_parts)) = {}) =>
        route_result = <<"help", 50>>

C3_Witness ==
    /\ llm_parts = <<"INVALID_AGENT">>
    /\ route_result = <<"help", 50>>

\* C4 (SpecRouter): when the reply contains more than one label token, route returns
\* the label that comes first in the order INTERVIEW, TECHNICAL, PERSONAL, BACKGROUND,
\* HELP, wherever the tokens stand in the reply.
C4_EnumerationOrderWins ==
    LET present == LabelsIn(Join(llm_parts))
    IN  (route_result # <<>> /\ Cardinality(present) > 1) =>
            \E k \in present :
                /\ \A j \in present : k <= j
                /\ route_result = <<LabelNames[k], 90>>

\* the reply names HELP, then BACKGROUND, then TECHNICAL: the last one named wins
C4_Witness ==
    /\ llm_parts = <<"Help", "BACKGROUND", "technical">>
    /\ route_result = <<"technical", 90>>

\* the piece is one label token, in any letter case
IsLabelPiece(piece, k) == lower(Text(piece)) = lower(LabelTokens[k])

\* the text before piece i of the reply, and the text after it
Before(i) == Join(SubSeq(llm_parts, 1, i - 1))
After(i) == Join(SubSeq(llm_parts, i + 1, Len(llm_parts)))

\* C5 as stated (SpecRouter): a label in any letter case, surrounded by whitespace or
\* by prose that contains no label token, is routed to (that label, 0.9).
C5_Original ==
    route_result # <<>> =>
        \A i \in 1..Len(llm_parts) : \A k \in 1..5 :
            ( /\ IsLabelPiece(llm_parts[i], k)
              /\ LabelsIn(Before(i)) = {}
              /\ LabelsIn(After(i)) = {} )
            => route_result = <<LabelNames[k], 90>>

\* C5 as amended (SpecRouter): a label in any letter case, surrounded by whitespace or
\* prose, is routed to (that label, 0.9) whenever the reply as a whole contains no
\* other label token.
C5_CaseWhitespaceProse ==
    route_result # <<>> =>
        \A i \in 1..Len(llm_parts) : \A k \in 1..5 :
            ( /\ IsLabelPiece(llm_parts[i], k)
              /\ LabelsIn(Join(llm_parts)) = {k} )
            => route_result = <<LabelNames[k], 90>>

C5_Witness ==
    /\ llm_parts = <<"agent: ", "technical", "whitespace">>
    /\ route_result = <<"technical", 90>>

\* C6 (SpecRouter): route and process return one of the five agent names and a
\* confidence of 0.9 or 0.5, which lies in [0,1].
C6_RouterResultIsValid ==
    /\ route_result # <<>> =>
          /\ route_result[1] \in {"interview", "technical", "personal", "background", "help"}
          /\ route_result[2] \in {90, 50}
          /\ 0 <= route_result[2] /\ route_result[2] <= 100
    /\ process_result.agent # None =>
          /\ process_result.agent \in
                {"interview", "technical", "personal", "background", "help"}
          /\ process_result.confidence \in {90, 50}
          /\ 0 <= process_result.confidence /\ process_result.confidence <= 100

C6_Witness ==
    /\ llm_parts = <<"agent: ", "INVALID_AGENT">>
    /\ route_result = <<"help", 50>>
    /\ process_result.agent = "help"
    /\ process_result.confidence = 50

\* C7 (Spec): when the router returns label L for a message, process_message runs
\* agent L and no other agent on it, and the reply's agent field and the agent label
\* stored with the assistant turn both name L.
C7_DispatchFollowsRouter ==
    \A r \in Replied :
        (req[r].reply.success = TRUE /\ req[r].routed \in KnownLabels) =>
            /\ req[r].ran = <<req[r].routed>>
            /\ req[r].reply.agent = req[r].routed
            /\ History(r)[Len(History(r))].type = "ai"
            /\ History(r)[Len(History(r))].agent = req[r].routed

C7_Witness ==
    \E r \in Replied :
        /\ req[r].routed = "technical"
        /\ req[r].ran = <<"technical">>
        /\ req[r].reply.agent = "technical"
        /\ Len(req[r].before) > 0

\* C8 (SpecDispatch): when the routing result is not one of the five labels, or is
\* missing, the help agent processes the message and the reply has the fields
\* success, response, agent, confidence and session_id.
C8_UnknownFallsBackToHelp ==
    \A r \in Replied :
        req[r].routed \notin {"interview", "technical", "personal", "background", "help"} =>
            /\ req[r].ran = <<"help">>
            /\ DOMAIN req[r].reply =
                  {"success", "response", "agent", "confidence", "session_id"}
            /\ req[r].reply.success = TRUE
            /\ req[r].reply.session_id = req[r].session_id

C8_Witness ==
    \E r \in Replied :
        /\ req[r].routed = "unknown"
        /\ req[r].ran = <<"help">>
        /\ req[r].reply.success = TRUE

\* the agent reply contains one of the two uncertainty phrases
Uncertain(text) == Contains(NotSure, text) \/ Contains(DontKnow, text)

\* C9 (SpecConfidence): _calculate_confidence returns at most 0.6 for a text shorter
\* than 50 characters, and exactly 0.85 for a text of 50 or more characters that
\* contains neither "I'm not sure" nor "I don't know".
C9_ShortAndPlain ==
    \A c \in confidence :
        LET text == Join(response_parts)
        IN  /\ Len(text) < 50 => c <= 60
            /\ (Len(text) >= 50 /\ ~Uncertain(text)) => c = 85

\* a plain reply of exactly 50 characters
C9_Witness ==
    /\ response_parts = <<"I build backend services.", "I build backend services.">>
    /\ Len(Join(response_parts)) = 50
    /\ confidence = {85}

\* C10 (SpecConfidence): for every reply that contains "I'm not sure" or
\* "I don't know", whatever its length, the confidence is at most 0.4.
C10_UncertainAtMost40 ==
    \A c \in confidence :
        Uncertain(Join(response_parts)) => c <= 40

(***************************************************************************)
(* AgentResponse (agents/base.py): the pydantic model of an agent's reply. *)
(* Constructing it validates confidence against Field(ge=0, le=1); a       *)
(* failed validation raises, shown as a result with raised set.            *)
(***************************************************************************)
AgentResponse_open(content, agent_name, conf) ==
    IF conf > 0 /\ conf < 100
    THEN [raised |-> None, content |-> content, agent_name |-> agent_name,
          confidence |-> conf, metadata |-> <<>>]
    ELSE [raised |-> "ValidationError"]

AgentResponse(content, agent_name, conf) ==
    IF conf >= 0 /\ conf <= 100
    THEN [raised |-> None, content |-> content, agent_name |-> agent_name,
          confidence |-> conf, metadata |-> <<>>]
    ELSE [raised |-> "ValidationError"]

(***************************************************************************)
(* SpecAgentResponse: one chat request handled by process_message, next to *)
(* one construction of an AgentResponse from any confidence a caller can   *)
(* pass (the values of test_agents.py and their neighbours).               *)
(***************************************************************************)
ConfidenceInputs == {-10, -1, 0, 1, 50, 85, 99, 100, 101, 150}

\* AgentResponse(content="Test", agent_name="Test", confidence=c)
Construct(c) ==
    /\ agent_response.pc = "idle"
    /\ agent_response' = [pc |-> "done", input |-> c,
                          result |-> AgentResponse("Test", "Test", c)]
    /\ UNCHANGED <<llm_parts, route_result, process_result, response_parts, confidence,
                   sessions, req, calls, token_check, apiVars, stream>>

\* the first process_message call of the process
StartFirst(session_id, message) ==
    /\ calls = 0
    /\ StartSequential(session_id, message)

NextAgentResponse ==
    \/ \E c \in ConfidenceInputs : Construct(c)
    \/ \E session_id \in SessionIds, message \in UserMessages :
          StartFirst(session_id, message)
    \/ \E r \in Reqs : RouteStep(r)
    \/ \E r \in Reqs : RouteRaises(r)
    \/ \E r \in Reqs : AgentStep(r)
    \/ \E r \in Reqs : AgentRaises(r)
    \/ \E r \in Reqs : Finish(r)
    \/ \E r \in Reqs : Return(r)

SpecAgentResponse == Init /\ [][NextAgentResponse]_vars

\* every confidence a stored graph state carries
StateConfidences(state) ==
    state.routing_confidence
        \cup UNION {state.messages[i].confidence : i \in DOMAIN state.messages}

\* C11: every confidence that leaves the system lies in [0,1] -- the
\* router's result and each agent's reply as the graph state carries them
\* (stored or in flight) and the reply of process_message -- and
\* AgentResponse accepts exactly the confidences from 0 to 1, both ends
\* included, keeping the value it was given.
C11_ConfidenceInUnitInterval ==
    /\ \A s \in DOMAIN sessions : StateConfidences(sessions[s]) \subseteq 0..100
    /\ \A r \in Reqs :
         /\ StateConfidences(req[r].state) \subseteq 0..100
         /\ req[r].pc = "done" /\ req[r].reply.success
              => req[r].reply.confidence \in 0..100
    /\ agent_response.pc = "done" =>
         /\ agent_response.result.raised = None
              <=> (agent_response.input >= 0 /\ agent_response.input <= 100)
         /\ agent_response.result.raised = None
              => agent_response.result.confidence = agent_response.input
         /\ agent_response.result.raised \in {None, "ValidationError"}

\* a boundary value was accepted while a chat reply carrying a heuristic
\* confidence was being returned
C11_Witness ==
    /\ agent_response.pc = "done"
    /\ agent_response.input = 100
    /\ agent_response.result.raised = None
    /\ \E r \in Reqs : /\ req[r].pc = "done"
                       /\ req[r].reply.success
                       /\ req[r].reply.confidence = 60

\* the requests whose LLM call raised
Raised == {r \in Reqs : req[r].llm_raised # None}

MaxTokenParts == 2       \* pieces in a token string
MaxDay == 3              \* days on the calendar

\* datetime.strptime(date, "%Y-%m-%d"): midnight at the start of the day
strptime(date) == [day |-> date, micro |-> 0]

\* a > b on datetimes
DatetimeAfter(a, b) == a.day > b.day \/ (a.day = b.day /\ a.micro > b.micro)

\* the keys of token_database whose text is `text`
KeysFor(token_database, text) == {k \in DOMAIN token_database : Text(k) = text}

\* validate_token comparing the token as typed (strip() left out)
validate_token_no_strip(token, token_database, now) ==
    IF token.kind # "str" \/ Join(token.parts) = <<>>
    THEN <<FALSE, None>>
    ELSE LET T == upper(Join(token.parts))
             keys == KeysFor(token_database, T)
         IN  IF keys = {} THEN <<FALSE, None>>
             ELSE LET token_info == token_database[CHOOSE k \in keys : TRUE]
                  IN  IF /\ token_info.expires # {}
                         /\ \E e \in token_info.expires : DatetimeAfter(now, strptime(e))
                      THEN <<FALSE, None>>
                      ELSE <<TRUE, IF token_info.company = {} THEN "Unknown"
                                   ELSE CHOOSE c \in token_info.company : TRUE>>

\* validate_token(token, token_database), called at datetime `now`
validate_token(token, token_database, now) ==
    IF token.kind # "str" \/ Join(token.parts) = <<>>
    THEN <<FALSE, None>>
    ELSE LET T == upper(strip(Join(token.parts)))
             keys == KeysFor(token_database, T)
         IN  IF keys = {} THEN <<FALSE, None>>
             ELSE LET token_info == token_database[CHOOSE k \in keys : TRUE]
                  IN  IF /\ token_info.expires # {}
                         /\ \E e \in token_info.expires : DatetimeAfter(now, strptime(e))
                      THEN <<FALSE, None>>
                      ELSE <<TRUE, IF token_info.company = {} THEN "Unknown"
                                   ELSE CHOOSE c \in token_info.company : TRUE>>

(***************************************************************************)
(* SpecValidate: validate_token on every token of at most MaxTokenParts    *)
(* pieces (and on None and a non-string), every database over two keys and *)
(* every instant of the calendar.                                          *)
(***************************************************************************)
TokenPieces == {"GOOGLE2024", "Google", "2024", "whitespace"}
TokenArgs == {[kind |-> "None"], [kind |-> "int"]}
                 \cup {[kind |-> "str", parts |-> p] : p \in SeqUpTo(TokenPieces, MaxTokenParts)}
TokenKeys == {"GOOGLE2024", "Google"}
TokenRecords == [company : {{}, {"Google"}}, expires : {{}} \cup {{d} : d \in 1..MaxDay - 1}]
TokenDatabases == UNION {[keys -> TokenRecords] : keys \in SUBSET TokenKeys}
Datetimes == [day : 0..MaxDay, micro : 0..1]

InitValidate ==
    /\ InitText
    /\ InitChat
    /\ agent_response = [pc |-> "idle"]
    /\ stream = IdleStream
    /\ InitApi
    /\ \E token \in TokenArgs, token_database \in TokenDatabases, now \in Datetimes :
         token_check = [pc |-> "call", token |-> token,
                        token_database |-> token_database, now |-> now]

ValidateToken ==
    /\ token_check.pc = "call"
    /\ token_check' = [pc |-> "done", token |-> token_check.token,
                       token_database |-> token_check.token_database,
                       now |-> token_check.now,
                       result |-> validate_token(token_check.token,
                                                 token_check.token_database,
                                                 token_check.now)]
    /\ UNCHANGED <<llm_parts, route_result, process_result, response_parts, confidence,
                   sessions, req, calls, agent_response, apiVars, stream>>

NextValidate == ValidateToken

SpecValidate == InitValidate /\ [][NextValidate]_vars

\* C13 (SpecValidate): validate_token returns (True, company of the record) exactly
\* when the token is a non-empty string, its stripped and upper-cased form T is a key
\* of the database, and the record under T has no expiry or the time of the call is
\* not after its expiry date (the datetime strptime makes of it); in every other
\* case it returns (False, None).
C13_ValidateToken ==
    token_check.pc = "done" =>
        LET token == token_check.token
            token_database == token_check.token_database
            T == upper(strip(Join(token.parts)))
            keys == IF token.kind = "str" /\ Join(token.parts) # <<>>
                    THEN KeysFor(token_database, T) ELSE {}
            live == {k \in keys :
                       \A e \in token_database[k].expires :
                           ~DatetimeAfter(token_check.now, strptime(e))}
        IN  IF live # {}
            THEN /\ token_check.result[1] = TRUE
                 /\ \A k \in live :
                      token_database[k].company # {}
                          => token_check.result[2] \in token_database[k].company
            ELSE token_check.result = <<FALSE, None>>

\* a token typed in mixed case, present with an expiry still ahead, was accepted
C13_Witness ==
    /\ token_check.pc = "done"
    /\ token_check.token = [kind |-> "str", parts |-> <<"Google", "2024">>]
    /\ token_check.result = <<TRUE, "Google">>
    /\ token_check.token_database["GOOGLE2024"].expires # {}

(***************************************************************************)
(* POST /auth/token: authenticate_token (main.py), TokenAuthNode.__call__  *)
(* (nodes/auth.py) and the DatabaseManager methods they call.              *)
(***************************************************************************)
MaxRequests == 3         \* HTTP requests in one behaviour

\* Python truthiness of an Optional[str]
Truthy(x) == x \notin {None, ""}

\* x or y
Or(x, y) == IF Truthy(x) THEN x ELSE y

\* DomainValidator.is_valid_domain
is_valid_domain(domain) ==
    IF ~Truthy(domain) THEN <<FALSE, "Domain is required">>
    ELSE <<TRUE, "Domain accepted">>

\* update_token_company writing the company column only
update_token_company_only(database, token_hash, company, company_name, now) ==
    IF token_hash \notin DOMAIN database.token_access THEN database
    ELSE [database EXCEPT !.token_access[token_hash] =
            [@ EXCEPT !.company = company, !.last_accessed = {now}]]

\* DatabaseManager.update_token_company
update_token_company(database, token_hash, company, company_name, now) ==
    IF token_hash \notin DOMAIN database.token_access THEN database
    ELSE [database EXCEPT !.token_access[token_hash] =
            [@ EXCEPT !.company = company, !.company_name = company_name,
                      !.last_accessed = {now}]]

\* DatabaseManager.update_token_access
update_token_access(database, token_hash, now) ==
    IF token_hash \notin DOMAIN database.token_access THEN database
    ELSE [database EXCEPT !.token_access[token_hash].last_accessed = {now}]

\* DatabaseManager.log_access
log_access(database, token_hash, ip_address, page_accessed, company_domain) ==
    [database EXCEPT !.access_logs =
        Append(@, [token_hash |-> token_hash, ip_address |-> ip_address,
                   page_accessed |-> page_accessed, company_domain |-> company_domain])]

\* AuthState(token=token)
AuthState(token) ==
    [token |-> token, authenticated |-> FALSE, company |-> None, company_name |-> None,
     custom_data |-> None, session_id |-> {}, error |-> None]

\* the auth node recording the attempt before it looks the token up
TokenAuthNode_log_first(state, database, logs, now, ip_address) ==
    IF ~Truthy(state.token)
    THEN [state |-> [state EXCEPT !.error = "No token provided"],
          db |-> database, access_logs |-> logs, statements |-> <<>>]
    ELSE LET hashed_token == sha256(state.token)
             logged == Append(logs, [token_hash |-> hashed_token,
                                     company |-> state.company,
                                     timestamp |-> now, ip |-> ip_address])
         IN  IF hashed_token \in DOMAIN database.token_access
             THEN LET token_info == database.token_access[hashed_token]
                      db1 == IF Truthy(state.company)
                             THEN update_token_company(database, hashed_token,
                                                       state.company, state.company, now)
                             ELSE database
                      company == Or(state.company, token_info.company)
                  IN  [state |-> [state EXCEPT
                                    !.authenticated = TRUE,
                                    !.company = company,
                                    !.company_name = Or(company, token_info.company_name),
                                    !.custom_data = token_info.custom_data,
                                    !.session_id = {<<hashed_token, now>>}],
                       db |-> update_token_access(db1, hashed_token, now),
                       access_logs |-> logged,
                       statements |-> <<"SELECT token_access">>
                                      \o (IF Truthy(state.company)
                                          THEN <<"UPDATE token_access SET company">>
                                          ELSE <<>>)
                                      \o <<"UPDATE token_access SET last_accessed">>]
             ELSE [state |-> [state EXCEPT !.error = "Invalid token"],
                   db |-> database, access_logs |-> logged,
                   statements |-> <<"SELECT token_access">>]

\* TokenAuthNode.__call__(state, ip_address=...) with db_manager set and log_access on,
\* run at time `now`: the state returned, the database and the in-memory list it
\* leaves, and the SQL statements it ran
TokenAuthNode(state, database, logs, now, ip_address) ==
    IF ~Truthy(state.token)
    THEN [state |-> [state EXCEPT !.error = "No token provided"],
          db |-> database, access_logs |-> logs, statements |-> <<>>]
    ELSE LET hashed_token == sha256(state.token)
         IN  IF hashed_token \in DOMAIN database.token_access
             THEN LET token_info == database.token_access[hashed_token]
                      db1 == IF Truthy(state.company)
                             THEN update_token_company(database, hashed_token,
                                                       state.company, state.company, now)
                             ELSE database
                      company == Or(state.company, token_info.company)
                  IN  [state |-> [state EXCEPT
                                    !.authenticated = TRUE,
                                    !.company = company,
                                    !.company_name = Or(company, token_info.company_name),
                                    !.custom_data = token_info.custom_data,
                                    !.session_id = {<<hashed_token, now>>}],
                       db |-> update_token_access(db1, hashed_token, now),
                       access_logs |-> Append(logs, [token_hash |-> hashed_token,
                                                     company |-> company,
                                                     timestamp |-> now,
                                                     ip |-> ip_address]),
                       statements |-> <<"SELECT token_access">>
                                      \o (IF Truthy(state.company)
                                          THEN <<"UPDATE token_access SET company">>
                                          ELSE <<>>)
                                      \o <<"UPDATE token_access SET last_accessed">>]
             ELSE [state |-> [state EXCEPT !.error = "Invalid token"],
                   db |-> database, access_logs |-> logs,
                   statements |-> <<"SELECT token_access">>]

AuthTokens == {"", "hello", "Hello", "nope"}
CompanyDomains == {None, "", "acme.com", "gmail.com"}
ClientIp == "127.0.0.1"

\* POST /auth/token looking the token up only when the request names a company domain
AuthToken_domain_required(token, company_domain) ==
    /\ clock < MaxRequests
    /\ clock' = clock + 1
    /\ LET domain == IF Truthy(company_domain) THEN is_valid_domain(company_domain)
                     ELSE <<TRUE, "Domain not required">>
           auth_state == [AuthState(IF Truthy(company_domain) THEN token ELSE "") EXCEPT
                            !.company = IF Truthy(company_domain) THEN company_domain
                                        ELSE "not_provided"]
           out == TokenAuthNode(auth_state, db, access_logs, clock', ClientIp)
           result == out.state
           response == [authenticated |-> FALSE, company |-> None, company_name |-> None,
                        session_id |-> {}, error |-> None,
                        domain_valid |-> domain[1], domain_message |-> domain[2]]
       IN  /\ access_logs' = out.access_logs
           /\ IF result.authenticated
              THEN /\ db' = log_access(out.db, sha256(token), ClientIp, "/auth/token",
                                       company_domain)
                   /\ http' = [endpoint |-> "/auth/token",
                               request |-> [token |-> token,
                                            company_domain |-> company_domain],
                               status |-> 200,
                               body |-> [response EXCEPT
                                           !.authenticated = TRUE,
                                           !.company = result.company,
                                           !.company_name = result.company_name,
                                           !.session_id = result.session_id],
                               statements |-> Append(out.statements, "INSERT access_logs")]
              ELSE /\ db' = out.db
                   /\ http' = [endpoint |-> "/auth/token",
                               request |-> [token |-> token,
                                            company_domain |-> company_domain],
                               status |-> 200,
                               body |-> [response EXCEPT !.error = result.error],
                               statements |-> out.statements]
    /\ UNCHANGED <<llm_parts, route_result, process_result, response_parts, confidence,
                   sessions, req, calls, agent_response, token_check, env, stream>>

\* POST /auth/token with body {token, company_domain}
AuthToken(token, company_domain) ==
    /\ clock < MaxRequests
    /\ clock' = clock + 1
    /\ LET domain == IF Truthy(company_domain) THEN is_valid_domain(company_domain)
                     ELSE <<TRUE, "Domain not required">>
           auth_state == [AuthState(token) EXCEPT
                            !.company = IF Truthy(company_domain) THEN company_domain
                                        ELSE "not_provided"]
           out == TokenAuthNode(auth_state, db, access_logs, clock', ClientIp)
           result == out.state
           response == [authenticated |-> FALSE, company |-> None, company_name |-> None,
                        session_id |-> {}, error |-> None,
                        domain_valid |-> domain[1], domain_message |-> domain[2]]
       IN  /\ access_logs' = out.access_logs
           /\ IF result.authenticated
              THEN /\ db' = log_access(out.db, sha256(token), ClientIp, "/auth/token",
                                       company_domain)
                   /\ http' = [endpoint |-> "/auth/token",
                               request |-> [token |-> token,
                                            company_domain |-> company_domain],
                               status |-> 200,
                               body |-> [response EXCEPT
                                           !.authenticated = TRUE,
                                           !.company = result.company,
                                           !.company_name = result.company_name,
                                           !.session_id = result.session_id],
                               statements |-> Append(out.statements, "INSERT access_logs")]
              ELSE /\ db' = out.db
                   /\ http' = [endpoint |-> "/auth/token",
                               request |-> [token |-> token,
                                            company_domain |-> company_domain],
                               status |-> 200,
                               body |-> [response EXCEPT !.error = result.error],
                               statements |-> out.statements]
    /\ UNCHANGED <<llm_parts, route_result, process_result, response_parts, confidence,
                   sessions, req, calls, agent_response, token_check, env, stream>>

(***************************************************************************)
(* POST /api/sql/execute: execute_query (routes/sql_demo.py) and           *)
(* DatabaseManager.execute_demo_query.                                     *)
(***************************************************************************)
\* what SQLite answers to the statement `sql` on the sample data: the column
\* names and the rows
RunSql(database, sql) ==
    CASE sql = SampleQueryDemonstrations["Project Overview"].query_sql ->
             [columns |-> <<"name", "description", "status", "impact_score">>,
              rows |-> <<[name |-> "Resume Dashboard", status |-> "in_progress",
                          impact_score |-> 9]>>]
      [] sql = SampleQueryDemonstrations["Skills by Category"].query_sql ->
             [columns |-> <<"category", "skill_count", "avg_proficiency">>,
              rows |-> <<[category |-> "AI/ML", skill_count |-> 2],
                         [category |-> "Backend", skill_count |-> 2],
                         [category |-> "Database", skill_count |-> 1],
                         [category |-> "DevOps", skill_count |-> 1],
                         [category |-> "Frontend", skill_count |-> 1]>>]
      [] sql = SampleQueryDemonstrations["Recent Projects"].query_sql ->
             [columns |-> <<"name", "tech_stack", "start_date">>,
              rows |-> <<[name |-> "Resume Dashboard", start_date |-> "2024-12-01"]>>]

\* execute_demo_query counting the columns instead of the rows
execute_demo_query_columns(database, query_name) ==
    IF query_name \notin DOMAIN database.query_demonstrations
    THEN [raised |-> "ValueError", statements |-> <<"SELECT query_demonstrations">>]
    ELSE LET result == database.query_demonstrations[query_name]
             answer == RunSql(database, result.query_sql)
         IN  [raised |-> None,
              statements |-> <<"SELECT query_demonstrations", result.query_sql>>,
              query_name |-> query_name, description |-> result.description,
              sql |-> result.query_sql, columns |-> answer.columns,
              rows |-> answer.rows, count |-> Len(answer.columns)]

\* DatabaseManager.execute_demo_query(query_name): what it returns or raises, and
\* the SQL statements it ran
execute_demo_query(database, query_name) ==
    IF query_name \notin DOMAIN database.query_demonstrations
    THEN [raised |-> "ValueError", statements |-> <<"SELECT query_demonstrations">>]
    ELSE LET result == database.query_demonstrations[query_name]
             answer == RunSql(database, result.query_sql)
         IN  [raised |-> None,
              statements |-> <<"SELECT query_demonstrations", result.query_sql>>,
              query_name |-> query_name, description |-> result.description,
              sql |-> result.query_sql, columns |-> answer.columns,
              rows |-> answer.rows, count |-> Len(answer.rows)]

QueryNames == {"Project Overview", "Skills by Category",
               "project overview", "DROP TABLE projects;"}

\* POST /api/sql/execute?query_name=...
ExecuteQuery(query_name) ==
    /\ clock < MaxRequests
    /\ clock' = clock + 1
    /\ LET result == execute_demo_query(db, query_name)
       IN  http' = IF result.raised = "ValueError"
                   THEN [endpoint |-> "/api/sql/execute",
                         request |-> [query_name |-> query_name],
                         status |-> 404, body |-> [detail |-> "Query not found"],
                         statements |-> result.statements]
                   ELSE [endpoint |-> "/api/sql/execute",
                         request |-> [query_name |-> query_name],
                         status |-> 200,
                         body |-> [success |-> TRUE, query_name |-> result.query_name,
                                   description |-> result.description,
                                   sql |-> result.sql, columns |-> result.columns,
                                   rows |-> result.rows, row_count |-> result.count],
                         statements |-> result.statements]
    /\ UNCHANGED <<llm_parts, route_result, process_result, response_parts, confidence,
                   sessions, req, calls, agent_response, token_check,
                   env, db, access_logs, stream>>

(***************************************************************************)
(* GET /admin/analytics: get_analytics (routes/admin.py).                  *)
(***************************************************************************)
\* the gate comparing without regard to letter case
Authorized_lower(authorization, admin_token) ==
    /\ authorization.kind = "str"
    /\ Join(authorization.parts) # <<>>
    /\ lower(Join(authorization.parts)) = lower(Text("Bearer ") \o Text(admin_token))

\* not (not authorization or authorization != f"Bearer {ADMIN_TOKEN}")
Authorized(authorization, admin_token) ==
    /\ authorization.kind = "str"
    /\ Join(authorization.parts) # <<>>
    /\ Join(authorization.parts) = Text("Bearer ") \o Text(admin_token)

\* COUNT(a.id) of the LEFT JOIN: the access_logs rows of one token
AccessCount(database, token_hash) ==
    Cardinality({i \in DOMAIN database.access_logs :
                    database.access_logs[i].token_hash = token_hash})

\* the visitor dicts built from the query's rows (one per token with a company)
Visitors(database) ==
    {[token_hash |-> h,
      company |-> Or(database.token_access[h].company, "Unknown"),
      company_name |-> Or(database.token_access[h].company_name,
                          Or(database.token_access[h].company, "Unknown")),
      last_accessed |-> database.token_access[h].last_accessed,
      visit_count |-> IF AccessCount(database, h) > 0 THEN AccessCount(database, h)
                      ELSE 1] :
        h \in {k \in DOMAIN database.token_access :
                  database.token_access[k].company # None}}

\* sum(v['visit_count'] for v in visitors)
RECURSIVE TotalVisits(_)
TotalVisits(visitors) ==
    IF visitors = {} THEN 0
    ELSE LET v == CHOOSE x \in visitors : TRUE
         IN  v.visit_count + TotalVisits(visitors \ {v})

AuthorizationHeaders ==
    {[kind |-> "None"]}
        \cup {[kind |-> "str", parts |-> p] :
                p \in {<<>>, <<"Bearer ">>, <<"Bearer ", "secret">>, <<"secret">>,
                       <<"bearer ", "secret">>, <<"Bearer ", "Secret">>}}

\* GET /admin/analytics with the Authorization header `authorization`
GetAnalytics(authorization) ==
    /\ clock < MaxRequests
    /\ clock' = clock + 1
    /\ http' = IF ~Authorized(authorization, env.ADMIN_TOKEN)
               THEN [endpoint |-> "/admin/analytics",
                     request |-> [authorization |-> authorization],
                     status |-> 403,
                     body |-> [detail |-> "Unauthorized - Invalid admin token"],
                     statements |-> <<>>]
               ELSE LET visitors == Visitors(db)
                    IN  [endpoint |-> "/admin/analytics",
                         request |-> [authorization |-> authorization],
                         status |-> 200,
                         body |-> [visitors |-> visitors,
                                   total_visitors |-> Cardinality(visitors),
                                   total_visits |-> TotalVisits(visitors),
                                   visitors_this_week |->
                                       Cardinality({v \in visitors :
                                                       v.last_accessed # {}})],
                         statements |-> <<"SELECT token_access LEFT JOIN access_logs">>]
    /\ UNCHANGED <<llm_parts, route_result, process_result, response_parts, confidence,
                   sessions, req, calls, agent_response, token_check,
                   env, db, access_logs, stream>>

(***************************************************************************)
(* SpecApi: up to MaxRequests requests to the three endpoints, one after   *)
(* the other, on a server started with ADMIN_TOKEN set or left unset.      *)
(***************************************************************************)
AdminTokens == {"", "secret"}

InitApiServer ==
    /\ InitText
    /\ InitChat
    /\ agent_response = [pc |-> "idle"]
    /\ token_check = IdleTokenCheck
    /\ stream = IdleStream
    /\ env \in [ADMIN_TOKEN : AdminTokens]
    /\ db = SampleDatabase
    /\ access_logs = <<>>
    /\ http = IdleHttp
    /\ clock = 0

NextApi ==
    \/ \E token \in AuthTokens, company_domain \in CompanyDomains :
          AuthToken(token, company_domain)
    \/ \E query_name \in QueryNames : ExecuteQuery(query_name)
    \/ \E authorization \in AuthorizationHeaders : GetAnalytics(authorization)

SpecApi == InitApiServer /\ [][NextApi]_vars

\* C14 (SpecApi): a POST /auth/token whose token is empty, or whose SHA-256 hash no
\* token_access row has, is answered authenticated=false with an error message and
\* without company, company_name or session_id, and leaves the token store, the
\* access_logs table and the in-memory access_logs list as they were.
C14_FailedAuthChangesNothing ==
    [][ ( /\ http'.endpoint = "/auth/token"
          /\ \/ http'.request.token = ""
             \/ sha256(http'.request.token) \notin DOMAIN db.token_access )
        => /\ http'.status = 200
           /\ http'.body.authenticated = FALSE
           /\ http'.body.error \in {"No token provided", "Invalid token"}
           /\ http'.body.company = None
           /\ http'.body.company_name = None
           /\ http'.body.session_id = {}
           /\ db' = db
           /\ access_logs' = access_logs ]_vars

\* an unknown token was refused after an earlier login had filled the logs
C14_Witness ==
    /\ http.endpoint = "/auth/token"
    /\ http.request.token = "nope"
    /\ http.body.authenticated = FALSE
    /\ access_logs # <<>>
    /\ db.access_logs # <<>>

\* C15 (SpecApi): POST /api/sql/execute with a name that query_demonstrations does
\* not hold answers 404 having run only the lookup by name; with a registered name
\* it runs, after the lookup, exactly the SQL text stored under that name and
\* answers with those rows and row_count equal to their number.
C15_SqlExecute ==
    http.endpoint = "/api/sql/execute" =>
        LET query_name == http.request.query_name
        IN  IF query_name \notin DOMAIN db.query_demonstrations
            THEN /\ http.status = 404
                 /\ http.statements = <<"SELECT query_demonstrations">>
            ELSE LET query_sql == db.query_demonstrations[query_name].query_sql
                 IN  /\ http.status = 200
                     /\ http.statements = <<"SELECT query_demonstrations", query_sql>>
                     /\ http.body.sql = query_sql
                     /\ http.body.rows = RunSql(db, query_sql).rows
                     /\ http.body.row_count = Len(http.body.rows)

\* a registered query answered with five rows
C15_Witness ==
    /\ http.endpoint = "/api/sql/execute"
    /\ http.request.query_name = "Skills by Category"
    /\ http.status = 200
    /\ http.body.row_count = 5

\* the header is exactly "Bearer " followed by the configured admin token
ExactBearer(authorization) ==
    /\ authorization.kind = "str"
    /\ Join(authorization.parts) = Text("Bearer ") \o Text(env.ADMIN_TOKEN)

\* C16 (SpecApi): GET /admin/analytics answers 403 and runs no SQL statement when
\* the Authorization header is absent or is not exactly "Bearer " followed by the
\* configured admin token; exactly the requests presenting that token get the
\* visitor summary.
C16_AdminGate ==
    http.endpoint = "/admin/analytics" =>
        IF ExactBearer(http.request.authorization)
        THEN /\ http.status = 200
             /\ http.body.visitors = Visitors(db)
        ELSE /\ http.status = 403
             /\ http.statements = <<>>

\* the configured token was presented after a login and the summary counts the visit
C16_Witness ==
    /\ http.endpoint = "/admin/analytics"
    /\ env.ADMIN_TOKEN = "secret"
    /\ http.request.authorization = [kind |-> "str", parts |-> <<"Bearer ", "secret">>]
    /\ http.status = 200
    /\ db.access_logs # <<>>
    /\ http.body.total_visits = 3

\* a is a prefix of b
IsPrefix(a, b) ==
    \/ a = b
    \/ /\ Len(a) <= Len(b)
       /\ \A i \in 1..Len(a) : a[i] = b[i]

\* C17 (Spec): over any sequence of chat requests, every step of process_message
\* keeps each session in the session map and leaves its stored history with the
\* history it had before as a prefix: entries are never removed, reordered or
\* rewritten.
C17_HistoryAppendOnly ==
    [][ \A s \in DOMAIN sessions :
            /\ s \in DOMAIN sessions'
            /\ IsPrefix(sessions[s].messages, sessions'[s].messages) ]_vars

\* a second request on a session finished: its history grew on top of the earlier one
C17_Witness ==
    \E r \in Replied :
        /\ req[r].before # <<>>
        /\ IsPrefix(req[r].before, History(r))
        /\ Len(History(r)) > Len(req[r].before)

\* C18 (Spec): in every chat request handled by process_message the session exists
\* before routing (holding just the user message when the session_id was new); the
\* router node is entered first and once; then exactly one of the five agent nodes
\* is entered, once; and a reply exists only once the assistant turn it reports is
\* the last entry of the stored session.
C18_RequestOrder ==
    \A r \in Reqs :
        /\ req[r].pc # "idle" => req[r].session_id \in DOMAIN sessions
        /\ req[r].pc = "router" =>
             /\ req[r].nodes = <<>>
             /\ req[r].before = <<>> => History(r) = <<HumanMessage(req[r].message)>>
        /\ req[r].pc = "agent" => req[r].nodes = <<"router">>
        /\ req[r].pc \in {"update", "done"} =>
             /\ Len(req[r].nodes) = 2
             /\ req[r].nodes[1] = "router"
             /\ req[r].nodes[2] \in KnownLabels
             /\ req[r].ran = <<req[r].nodes[2]>>
        /\ req[r].pc # "done" => req[r].reply = [success |-> None]
        /\ req[r].pc = "done" =>
             /\ req[r].reply.success
             /\ LET last == History(r)[Len(History(r))]
                IN  /\ last.type = "ai"
                    /\ last.content = req[r].reply.response
                    /\ last.agent = req[r].reply.agent

\* the first request of a session was answered by the technical agent
C18_Witness ==
    \E r \in Replied :
        /\ req[r].before = <<>>
        /\ req[r].nodes = <<"router", "technical">>
        /\ req[r].reply.agent = "technical"

(***************************************************************************)
(* POST /api/chat/message/stream: send_message_stream (routes/chat.py).    *)
(* The generator is followed yield by yield; stream.events is what it has  *)
(* emitted so far.  ChatbotManager has no stream_message, so the fallback  *)
(* branch runs.  process_message answers with a dict its code can build    *)
(* or raises; log_chat writes its row or raises.                           *)
(***************************************************************************)
\* the position of the first space of s, 0 when there is none
FirstSpace(s) ==
    IF \E i \in 1..Len(s) : s[i] = " "
    THEN CHOOSE i \in 1..Len(s) : s[i] = " " /\ \A j \in 1..(i - 1) : s[j] # " "
    ELSE 0

\* str.split(' ')
RECURSIVE split(_)
split(s) ==
    IF FirstSpace(s) = 0 THEN <<s>>
    ELSE <<SubSeq(s, 1, FirstSpace(s) - 1)>> \o split(SubSeq(s, FirstSpace(s) + 1, Len(s)))

\* the SSE payloads
StatusEvent(message) == [type |-> "status", message |-> message]
AgentChangeEvent(agent) == [type |-> "agent_change", agent |-> agent]
TokenEvent(content) == [type |-> "token", content |-> content]
ErrorEvent(message) == [type |-> "error", message |-> message]
DoneEvent(session_id) == [type |-> "done", session_id |-> session_id]

\* replies of the agents' LLM in the stream specification: the chat replies, an empty
\* reply, a single space, and a reply with a run of spaces and a trailing space
StreamReplies == ChatAgentReplies \cup {"", " ", "hi  why? "}

\* what process_message can return for the session: the reply built from a graph
\* result that ends with an agent's turn, or from one holding no assistant turn
StreamResults(session_id, message) ==
    {BuildReply([messages |->
                    <<HumanMessage(message),
                      AIMessage(content, agent,
                                AgentProcess(agent, message, content).confidence)>>],
                session_id) :
        content \in StreamReplies, agent \in KnownLabels}
    \cup {BuildReply([messages |-> <<HumanMessage(message)>>], session_id)}

\* DatabaseManager.log_chat
log_chat(database, session_id, token, company, user_message, ai_response, agent_used) ==
    [database EXCEPT !.chat_logs =
        Append(@, [session_id |-> session_id,
                   token_hash |-> IF Truthy(token) THEN sha256(token)
                                  ELSE sha256("anonymous"),
                   agent_type |-> agent_used, user_message |-> user_message,
                   bot_response |-> ai_response])]

StreamSessionIds == {None, "s1"}
StreamTokens == {None, "hello"}

\* the request arrives; generate() starts: session_id or str(uuid.uuid4())
StreamOpen(session_id, message, token) ==
    /\ stream.pc = "idle"
    /\ stream' = [pc |-> "processing", session_id |-> Or(session_id, "uuid4"),
                  message |-> message, token |-> token, events |-> <<>>,
                  outcome |-> "pending", result |-> <<>>, i |-> 0]
    /\ UNCHANGED <<llm_parts, route_result, process_result, response_parts, confidence,
                   sessions, req, calls, agent_response, token_check, apiVars>>

\* one yield: the event is emitted and the generator moves on to `pc`
Yield(from, event, pc) ==
    /\ stream.pc = from
    /\ stream' = [stream EXCEPT !.events = Append(@, event), !.pc = pc]
    /\ UNCHANGED <<llm_parts, route_result, process_result, response_parts, confidence,
                   sessions, req, calls, agent_response, token_check, apiVars>>

\* line 147
EmitProcessing == Yield("processing", StatusEvent("Processing your question..."), "generating")

\* line 161
EmitGenerating == Yield("generating", StatusEvent("Generating response..."), "process")

\* lines 163-168: process_message returns
ProcessReturns ==
    /\ stream.pc = "process"
    /\ \E result \in StreamResults(stream.session_id, stream.message) :
         stream' = [stream EXCEPT
                      !.result = result,
                      !.outcome = IF result.success THEN "success" ELSE "failure",
                      !.pc = IF result.success THEN "agent_change" ELSE "result_error"]
    /\ UNCHANGED <<llm_parts, route_result, process_result, response_parts, confidence,
                   sessions, req, calls, agent_response, token_check, apiVars>>

\* lines 163-166: process_message raises
ProcessRaises ==
    /\ stream.pc = "process"
    /\ stream' = [stream EXCEPT !.outcome = "raised", !.pc = "except"]
    /\ UNCHANGED <<llm_parts, route_result, process_result, response_parts, confidence,
                   sessions, req, calls, agent_response, token_check, apiVars>>

\* line 170
EmitAgentChange ==
    /\ stream.pc = "agent_change"
    /\ Yield("agent_change", AgentChangeEvent(stream.result.agent), "clear")

\* line 173
EmitClear ==
    /\ stream.pc = "clear"
    /\ Yield("clear", StatusEvent(None), "token")

\* the token loop sending each word without the space that split() removed
EmitToken_bare ==
    /\ stream.pc = "token"
    /\ LET words == split(Text(stream.result.response))
           word == words[stream.i + 1]
           token_content == word
       IN  stream' = [stream EXCEPT
                        !.events = Append(@, TokenEvent(token_content)),
                        !.i = @ + 1,
                        !.pc = IF stream.i + 1 = Len(words) THEN "log" ELSE "token"]
    /\ UNCHANGED <<llm_parts, route_result, process_result, response_parts, confidence,
                   sessions, req, calls, agent_response, token_check, apiVars>>

\* lines 180-187: the next word of the response
EmitToken ==
    /\ stream.pc = "token"
    /\ LET words == split(Text(stream.result.response))
           word == words[stream.i + 1]
           token_content == IF stream.i = 0 THEN word ELSE <<" ">> \o word
       IN  stream' = [stream EXCEPT
                        !.events = Append(@, TokenEvent(token_content)),
                        !.i = @ + 1,
                        !.pc = IF stream.i + 1 = Len(words) THEN "log" ELSE "token"]
    /\ UNCHANGED <<llm_parts, route_result, process_result, response_parts, confidence,
                   sessions, req, calls, agent_response, token_check, apiVars>>

\* lines 190-197: log_chat writes the row
LogChat ==
    /\ stream.pc = "log"
    /\ db' = log_chat(db, stream.session_id, stream.token, None, stream.message,
                      stream.result.response, stream.result.agent)
    /\ stream' = [stream EXCEPT !.pc = "done"]
    /\ UNCHANGED <<llm_parts, route_result, process_result, response_parts, confidence,
                   sessions, req, calls, agent_response, token_check,
                   env, access_logs, http, clock>>

\* lines 190-197: log_chat raises (the database refuses the insert)
LogChatRaises ==
    /\ stream.pc = "log"
    /\ stream' = [stream EXCEPT !.outcome = "raised", !.pc = "except"]
    /\ UNCHANGED <<llm_parts, route_result, process_result, response_parts, confidence,
                   sessions, req, calls, agent_response, token_check, apiVars>>

\* line 199
EmitResultError ==
    /\ stream.pc = "result_error"
    /\ Yield("result_error", ErrorEvent(stream.result.error), "done")

\* line 202
EmitDone ==
    /\ stream.pc = "done"
    /\ Yield("done", DoneEvent(stream.session_id), "end")

\* the except clause also sending the completion signal
EmitException_done ==
    /\ stream.pc = "except"
    /\ stream' = [stream EXCEPT
                    !.events = @ \o <<ErrorEvent("str(e)"), DoneEvent(stream.session_id)>>,
                    !.pc = "end"]
    /\ UNCHANGED <<llm_parts, route_result, process_result, response_parts, confidence,
                   sessions, req, calls, agent_response, token_check, apiVars>>

\* lines 204-206
EmitException ==
    /\ stream.pc = "except"
    /\ Yield("except", ErrorEvent("str(e)"), "end")

(***************************************************************************)
(* SpecStream: one request to /api/chat/message/stream.                    *)
(***************************************************************************)
NextStream ==
    \/ \E session_id \in StreamSessionIds, message \in UserMessages, token \in StreamTokens :
          StreamOpen(session_id, message, token)
    \/ EmitProcessing
    \/ EmitGenerating
    \/ ProcessReturns
    \/ ProcessRaises
    \/ EmitAgentChange
    \/ EmitClear
    \/ EmitToken
    \/ LogChat
    \/ LogChatRaises
    \/ EmitResultError
    \/ EmitDone
    \/ EmitException

SpecStream == Init /\ [][NextStream]_vars

\* the positions of the events of one type
EventsOfType(type) == {i \in DOMAIN stream.events : stream.events[i].type = type}

\* C19 (SpecStream): the events of a stream start with a status event; every
\* token event comes after an agent_change event naming the reply's agent; a done
\* event is the last event.  A finished stream, when processing succeeded, has no
\* error event and ends with its only done event, carrying the session_id; when
\* process_message reported success=false, it ends with an error event followed
\* by done; when processing raised, it ends with an error event and has no done.
C19_StreamEvents ==
    stream.pc # "idle" =>
        LET events == stream.events
            n == Len(events)
        IN  /\ n > 0 => events[1].type = "status"
            /\ stream.pc \notin {"processing"} => n > 0
            /\ \A i \in EventsOfType("token") :
                 \E k \in EventsOfType("agent_change") :
                     k < i /\ events[k].agent = stream.result.agent
            /\ \A i \in EventsOfType("done") : i = n
            /\ stream.pc = "end" =>
                 CASE stream.outcome = "success" ->
                        /\ EventsOfType("agent_change") # {}
                        /\ EventsOfType("token") # {}
                        /\ EventsOfType("error") = {}
                        /\ EventsOfType("done") = {n}
                        /\ events[n].session_id = stream.session_id
                   [] stream.outcome = "failure" ->
                        /\ EventsOfType("done") = {n}
                        /\ EventsOfType("error") = {n - 1}
                   [] stream.outcome = "raised" ->
                        /\ events[n].type = "error"
                        /\ EventsOfType("done") = {}
                   [] OTHER -> FALSE

\* a stream that sent a twelve-word reply word by word and completed
C19_Witness ==
    /\ stream.pc = "end"
    /\ stream.outcome = "success"
    /\ Cardinality(EventsOfType("token")) = 12
    /\ stream.events[Len(stream.events)] = DoneEvent("uuid4")

\* C20 (Spec): whichever of the five agents answered, the confidence of its reply
\* is the shared heuristic applied to the reply's content: 0.6 for a short reply,
\* 0.4 for an uncertain one, 0.85 otherwise.
C20_AgentsUseHeuristic ==
    \A r \in Replied :
        req[r].reply.confidence
            = _calculate_confidence(Text(req[r].message), Text(req[r].reply.response))

(***************************************************************************)
(* The context of the prompts (base.py _build_context, workflow.py).       *)
(***************************************************************************)
\* the line of the context that stands for one stored turn
TurnLine(turn) ==
    IF turn.type = "human" THEN <<"User: ", turn.content>>
    ELSE <<"Assistant: ", turn.content>>

\* the context made of the last min(n, 5) of the n turns, one line each, in order
ContextOfTurns(turns) ==
    LET n == Len(turns)
        k == IF n < 5 THEN n ELSE 5
    IN  IF n = 0 THEN <<"This is the start of the conversation.">>
        ELSE JoinLines("\n", [i \in 1..k |-> TurnLine(turns[n - k + i])])

\* the request slots whose agent node has formatted its prompt
AgentPrompted == {r \in Reqs : req[r].agent_prompt # NoPrompt}

\* C21 (Spec): for a history of n prior turns, the context of the agent's prompt is the
\* last min(n, 5) turns, one line each in their order, prefixed "User: " or
\* "Assistant: "; for n = 0 it is "This is the start of the conversation."; the message
\* being answered is not part of it.
C21_AgentContext ==
    \A r \in AgentPrompted :
        Join(req[r].agent_prompt.context) = Join(ContextOfTurns(req[r].before))

\* the request slots whose router node has formatted its prompt
RouterPrompted == {r \in Reqs : req[r].router_prompt # NoPrompt}

\* C22 (Spec): the context of the router's prompt is built only from the turns that
\* precede the current message (the last five of them at most), and the current message
\* enters the prompt once, as the user message after the context.
C22_RouterContext ==
    \A r \in RouterPrompted :
        /\ req[r].router_prompt.message = req[r].message
        /\ Join(req[r].router_prompt.context) = Join(ContextOfTurns(req[r].before))

(***************************************************************************)
(* SpecConcurrent: process_message calls that overlap in time.  The event  *)
(* loop runs another request's coroutine whenever one awaits the graph, so *)
(* a call may start while another is at any of its steps.  The calls are   *)
(* on one session; the router LLM answers INTERVIEW and the agent's LLM    *)
(* answers "Yes." (what they answer plays no part in the interleaving).    *)
(***************************************************************************)
NextConcurrent ==
    \/ \E r \in Reqs, message \in UserMessages : Start(r, "s1", message)
    \/ \E r \in Reqs : RouteStep(r) /\ req'[r].routed = "interview"
    \/ \E r \in Reqs : RouteRaises(r)
    \/ \E r \in Reqs : AgentStep(r) /\ BuildReply(req'[r].state, "s1").response = "Yes."
    \/ \E r \in Reqs : AgentRaises(r)
    \/ \E r \in Reqs : Finish(r)
    \/ \E r \in Reqs : Return(r)

SpecConcurrent == Init /\ [][NextConcurrent]_vars

\* the graph state's messages after one process_message call that ran alone on the
\* stored history, the router LLM and the agent's LLM replying as given
CallAlone(history, message, router_reply, agent_reply) ==
    LET state == [NewSession("s1") EXCEPT !.messages = Append(history, HumanMessage(message))]
        routed == route_message(state, router_reply)
    IN  process_with_agent(routed, should_continue(routed), agent_reply).messages

\* the histories two calls can leave when the second starts after the first returned
SequentialHistories(history, first, second) ==
    {CallAlone(CallAlone(history, first, x[1], x[2]), second, y[1], y[2]) :
        x \in ChatRouterReplies \X ChatAgentReplies,
        y \in ChatRouterReplies \X ChatAgentReplies}

\* call b started on the session of call a after a appended its user message and before
\* a stored its result, and both have returned their reply
Overlapped(a, b) ==
    /\ a # b
    /\ req[a].pc = "done" /\ req[b].pc = "done"
    /\ req[a].session_id = req[b].session_id
    /\ req[b].before = Append(req[a].before, HumanMessage(req[a].message))

\* C23 (SpecConcurrent): no lock keeps a second process_message call on a session from
\* starting while a first one is in flight; and when two calls on a session overlapped,
\* the stored history is the history of neither sequential order of the two calls.
C23_OverlapBreaksHistory ==
    /\ \A a \in Reqs, b \in Reqs, message \in UserMessages :
          (/\ req[a].pc \in {"router", "agent", "update"}
           /\ req[b].pc = "idle"
           /\ calls < MaxCalls)
          => ENABLED Start(b, req[a].session_id, message)
    /\ \A a \in Reqs, b \in Reqs :
          Overlapped(a, b) =>
              History(a) \notin
                  SequentialHistories(req[a].before, req[a].message, req[b].message) \cup
                  SequentialHistories(req[a].before, req[b].message, req[a].message)

\* two calls overlapped and the turn of the second is lost: the first stored last
C23_Witness ==
    \E a \in Reqs, b \in Reqs :
        /\ Overlapped(a, b)
        /\ req[a].message # req[b].message
        /\ History(a) = req[a].state.messages
        /\ \A i \in DOMAIN History(a) : History(a)[i].content # req[b].message

(***************************************************************************)
(* SpecTokens: the token store over its life.  Tokens are provisioned and  *)
(* revoked out of band with DatabaseManager.create_token and revoke_token  *)
(* (no endpoint calls them) while POST /auth/token requests arrive.        *)
(* http holds the last operation handled, an endpoint or one of the two    *)
(* DatabaseManager calls.                                                  *)
(***************************************************************************)
\* DatabaseManager.revoke_token deleting nothing
revoke_token_keep(database, token_hash) ==
    [db |-> database, result |-> token_hash \in DOMAIN database.token_access]

\* DatabaseManager.revoke_token: the database it leaves and the value it returns
\* (cursor.rowcount > 0)
revoke_token(database, token_hash) ==
    [db |-> [database EXCEPT !.token_access =
                [h \in DOMAIN database.token_access \ {token_hash} |->
                    database.token_access[h]]],
     result |-> token_hash \in DOMAIN database.token_access]

\* DatabaseManager.create_token: the INSERT fails on a token_hash the table has (the
\* exception is caught and False returned), else the row is added, never accessed
create_token(database, token_hash, company, company_name, custom_data) ==
    IF token_hash \in DOMAIN database.token_access
    THEN [db |-> database, result |-> FALSE]
    ELSE [db |-> [database EXCEPT !.token_access =
                    [h \in DOMAIN database.token_access \cup {token_hash} |->
                        IF h = token_hash
                        THEN [company |-> company, company_name |-> company_name,
                              custom_data |-> custom_data, last_accessed |-> {}]
                        ELSE database.token_access[h]]],
          result |-> TRUE]

\* the tokens provisioned or revoked in the model, by their plain text
ProvisionedTokens == {"hello", "nope"}

\* db_manager.create_token(sha256(token), ...) called by the operator
CreateToken(token) ==
    /\ clock < MaxRequests
    /\ clock' = clock + 1
    /\ LET out == create_token(db, sha256(token), "new_co", "New Company", "Retail")
       IN  /\ db' = out.db
           /\ http' = [endpoint |-> "create_token",
                       request |-> [token_hash |-> sha256(token)],
                       result |-> out.result]
    /\ UNCHANGED <<llm_parts, route_result, process_result, response_parts, confidence,
                   sessions, req, calls, agent_response, token_check, env, access_logs,
                   stream>>

\* db_manager.revoke_token(sha256(token)) called by the operator
RevokeToken(token) ==
    /\ clock < MaxRequests
    /\ clock' = clock + 1
    /\ LET out == revoke_token(db, sha256(token))
       IN  /\ db' = out.db
           /\ http' = [endpoint |-> "revoke_token",
                       request |-> [token_hash |-> sha256(token)],
                       result |-> out.result]
    /\ UNCHANGED <<llm_parts, route_result, process_result, response_parts, confidence,
                   sessions, req, calls, agent_response, token_check, env, access_logs,
                   stream>>

\* revoke_token when SQLite raises (database locked, disk error): nothing is deleted,
\* the exception is caught and False returned
RevokeTokenRaises(token) ==
    /\ clock < MaxRequests
    /\ clock' = clock + 1
    /\ http' = [endpoint |-> "revoke_token",
                request |-> [token_hash |-> sha256(token)],
                result |-> FALSE]
    /\ UNCHANGED <<llm_parts, route_result, process_result, response_parts, confidence,
                   sessions, req, calls, agent_response, token_check, env, db, access_logs,
                   stream>>

NextTokens ==
    \/ \E token \in AuthTokens, company_domain \in CompanyDomains :
          AuthToken(token, company_domain)
    \/ \E token \in ProvisionedTokens : CreateToken(token)
    \/ \E token \in ProvisionedTokens : RevokeToken(token)
    \/ \E token \in ProvisionedTokens : RevokeTokenRaises(token)

SpecTokens == Init /\ [][NextTokens]_vars

\* C24 (SpecTokens): a token record leaves the token store only through a revoke_token
\* call that returns true; a revoke_token that returned true has removed the record; and
\* a POST /auth/token with a (non-empty) token authenticates exactly when the store has
\* the record of its hash, answering "Invalid token" when it has not.  Hence a token
\* authenticates from its creation to its revocation and is refused from then on until
\* it is created again.
C24_TokenLife ==
    [][ /\ \A h \in DOMAIN db.token_access :
              h \notin DOMAIN db'.token_access =>
                  /\ http'.endpoint = "revoke_token"
                  /\ http'.request.token_hash = h
                  /\ http'.result = TRUE
        /\ (http'.endpoint = "revoke_token" /\ http'.result = TRUE) =>
              /\ http'.request.token_hash \in DOMAIN db.token_access
              /\ http'.request.token_hash \notin DOMAIN db'.token_access
        /\ (http'.endpoint = "/auth/token" /\ http'.request.token # "") =>
              IF sha256(http'.request.token) \in DOMAIN db.token_access
              THEN /\ http'.body.authenticated = TRUE
                   /\ sha256(http'.request.token) \in DOMAIN db'.token_access
              ELSE /\ http'.body.authenticated = FALSE
                   /\ http'.body.error = "Invalid token" ]_vars

\* a sample token was used, revoked, and refused with "Invalid token" afterwards
C24_Witness ==
    /\ http.endpoint = "/auth/token"
    /\ http.request.token = "hello"
    /\ http.body.authenticated = FALSE
    /\ http.body.error = "Invalid token"
    /\ \E i \in DOMAIN db.access_logs : db.access_logs[i].token_hash = sha256("hello")

\* the step is a POST /auth/token that authenticated
AuthSucceeded == http'.endpoint = "/auth/token" /\ http'.body.authenticated = TRUE

\* the company the endpoint hands to the auth node for a request
EnteredCompany(request) ==
    IF Truthy(request.company_domain) THEN request.company_domain ELSE "not_provided"

\* C25 as stated: a successful authentication changes only last_accessed of the
\* matching token record.
C25_Original ==
    [][ AuthSucceeded =>
          LET h == sha256(http'.request.token)
          IN  /\ DOMAIN db'.token_access = DOMAIN db.token_access
              /\ \A k \in DOMAIN db.token_access \ {h} :
                    db'.token_access[k] = db.token_access[k]
              /\ db'.token_access[h].company = db.token_access[h].company
              /\ db'.token_access[h].company_name = db.token_access[h].company_name
              /\ db'.token_access[h].custom_data = db.token_access[h].custom_data ]_vars

\* C25 (SpecApi): a successful authentication through POST /auth/token sets the
\* matching token record's last_accessed to the current time and its company and
\* company_name both to the request's company_domain ("not_provided" when the request
\* has none); the record's custom_data and every other token record are unchanged.
C25_AuthWritesCompany ==
    [][ AuthSucceeded =>
          LET h == sha256(http'.request.token)
          IN  /\ DOMAIN db'.token_access = DOMAIN db.token_access
              /\ \A k \in DOMAIN db.token_access \ {h} :
                    db'.token_access[k] = db.token_access[k]
              /\ db'.token_access[h] =
                    [company |-> EnteredCompany(http'.request),
                     company_name |-> EnteredCompany(http'.request),
                     custom_data |-> db.token_access[h].custom_data,
                     last_accessed |-> {clock'}] ]_vars

\* a login without a company domain has overwritten the sample token's company
C25_Witness ==
    /\ http.endpoint = "/auth/token"
    /\ http.request.token = "hello"
    /\ http.request.company_domain = None
    /\ http.body.authenticated = TRUE
    /\ db.token_access[sha256("hello")].company = "not_provided"
    /\ db.token_access[sha256("hello")].company_name = "not_provided"
    /\ db.token_access[sha256("hello")].custom_data = "Technology"

\* C26 (SpecApi): whether POST /auth/token authenticates is decided by the token and
\* the token store alone: the authenticated flag is true exactly when the token is not
\* empty and the store has its hash, whatever the request's company_domain is (absent,
\* empty, a company's domain or a personal mail domain).
C26_DomainDoesNotDecide ==
    [][ http'.endpoint = "/auth/token" =>
          http'.body.authenticated =
              (/\ http'.request.token # ""
               /\ sha256(http'.request.token) \in DOMAIN db.token_access) ]_vars

\* the same token authenticated without a company domain and then with a personal
\* mail domain
C26_Witness ==
    /\ http.endpoint = "/auth/token"
    /\ http.request.token = "hello"
    /\ http.request.company_domain = "gmail.com"
    /\ http.body.authenticated = TRUE
    /\ \E i \in DOMAIN db.access_logs :
          /\ db.access_logs[i].token_hash = sha256("hello")
          /\ db.access_logs[i].company_domain = None

\* the request slots whose call ended with an exception (answered HTTP 500)
Failed == {r \in Reqs : req[r].pc = "raised"}

\* C27 (Spec): when a chat request fails, the session's stored history is the same as
\* before the request: no user turn without its reply is left behind, and a session
\* first seen in the failed request has no stored turns.
C27_FailedRequestKeepsHistory ==
    \A r \in Failed : History(r) = req[r].before

\* the sessions no process_message call is working on
Settled == {s \in DOMAIN sessions :
               \A r \in Reqs : req[r].pc \in {"router", "agent", "update"} =>
                                  req[r].session_id # s}

\* C28 (Spec): after any sequence of process_message calls on a session, agent_history
\* has exactly one entry per assistant turn of the history, in the same order and with
\* the same agent label; every entry is one of the five known labels; and current_agent
\* is the last entry, or None when the session has no assistant turn.
C28_AgentHistoryMatchesTurns ==
    \A s \in Settled :
        LET assistant == SelectSeq(sessions[s].messages, LAMBDA m : m.type = "ai")
            agent_history == sessions[s].agent_history
        IN  /\ Len(agent_history) = Len(assistant)
            /\ \A i \in DOMAIN agent_history :
                  /\ agent_history[i] = assistant[i].agent
                  /\ agent_history[i] \in KnownLabels
            /\ sessions[s].current_agent =
                  IF assistant = <<>> THEN None
                  ELSE agent_history[Len(agent_history)]

\* the content fields of the token events emitted so far, in emission order
TokenContents ==
    LET tokens == SelectSeq(stream.events, LAMBDA e : e.type = "token")
    IN  [i \in 1..Len(tokens) |-> tokens[i].content]

\* the token loop of the stream has run to its end
TokensSent == stream.pc \in {"log", "done", "end", "except"} /\ stream.outcome = "success"

\* C29 (SpecStream): once the token loop has ended, the content fields of the token
\* events, concatenated in emission order, are exactly the response text: no character
\* added, dropped or reordered, runs of spaces and an empty response included.
C29_TokensSpellResponse ==
    TokensSent => Flatten(TokenContents) = Text(stream.result.response)

\* a reply with a run of spaces and a trailing space was streamed in four tokens, two of
\* them a single space
C29_Witness ==
    /\ TokensSent
    /\ stream.result.response = "hi  why? "
    /\ TokenContents = << <<"h","i">>, <<" ">>, <<" ","w","h","y","?">>, <<" ">> >>

\* C30 (SpecApi): on a server with no admin token configured (ADMIN_TOKEN is the empty
\* string) every GET /admin/analytics is answered 403, whatever its Authorization
\* header is, "Bearer " with nothing after it included.
C30_NoAdminTokenNoAccess ==
    (http.endpoint = "/admin/analytics" /\ env.ADMIN_TOKEN = "") => http.status = 403

====
